---- MODULE Spec2Model ----
(***************************************************************************)
(* Model of the openclaw-kapso-whatsapp bridge: the delivery pipeline      *)
(* (Poller, Webhook, Merge), the admission Guard, the orchestrator's       *)
(* consume loop and the reply Relay.  Each component has its own           *)
(* specification over the shared state; a component that a specification   *)
(* does not exercise keeps its initial state.                              *)
(*                                                                         *)
(* Strings that the code inspects character by character (phone numbers,  *)
(* session keys) are sequences of one-character strings.  Time is a        *)
(* natural number of abstract clock units.                                 *)
(***************************************************************************)
EXTENDS Integers, Sequences, FiniteSets, TLC

VARIABLES
  \* ---- Merge (delivery.Merge) and its sources
  ch,            \* Merge.Run's internal channel `ch`
  seen,          \* Merge.seen (sync.Map used as a set of event ids)
  hold,          \* the event Merge.Run holds between LoadOrStore and `out <- evt`
  out,           \* the `out` channel of Merge.Run (`events` in main)
  nEmit,         \* number of events the sources have put on ch
  fwdCount,      \* history: id -> number of times forwarded to out
  accSinceDel,   \* history: id -> events that passed LoadOrStore since the id was last deleted from seen
  dropCount,     \* history: id -> number of events dropped as duplicates
  purgePc,       \* StartCleanup: "idle" or "range" (inside seen.Range)
  purgeTodo,     \* keys present when Range began and not visited yet
  purgeVisited,  \* keys Range has visited
  purges,        \* history: number of cleanups begun
  firstSrc,      \* history: id -> the source whose event with that id Merge received first
  fwdSincePurge, \* history: id -> forwards since the last cleanup ended, cleanup time excluded
  \* ---- clock and admission Guard (security.Guard)
  now,           \* the wall clock (time.Now)
  mode,          \* Guard.mode: "allowlist" or "open"
  denyMessage,   \* Guard.denyMessage: "" or the configured text
  isolate,       \* Guard.isolate (security.session_isolation)
  buckets,       \* Guard.buckets: normalized phone -> bucket or NoBucket
  checkLog,      \* history: the Check calls, in the order the mutex served them
  \* ---- orchestrator (main: the consume loop)
  consPc,        \* consume loop: "recv", "send" (before gw.Send), "spawn" (before go rel.Send)
  cur,           \* the event the consume loop is handling
  nArrived,      \* number of events Merge has handed to the consume loop
  handled,       \* history: per handled event (in order) its id, sender and verdict
  gwFrames,      \* history: the chat.send frames written to the gateway
  orchSends,     \* history: the Client.SendText calls of the consume loop
  \* ---- reply relay (relay.Relay, relay.Tracker)
  tasks,         \* the relay tasks started (`go rel.Send`), in spawn order
  sessions,      \* the sessions index: the session keys K with an entry "agent:K:K"
  transcripts,   \* session key -> the lines of that session's transcript file
  claimed,       \* Tracker.claimed: the claim keys <<file, line index>> marked
  grants,        \* history: the successful Tracker.Claim calls, in order
  waSent,        \* history: the replies the relay tasks passed to Client.SendText
  ctxDone,       \* the root context is cancelled
  \* ---- provider, Poller and Webhook receiver
  inbox,         \* the inbound messages the provider holds
  pollerPc,      \* Poller.Run: "init" before loadState, then "run"
  lastPoll,      \* Poller.Run's lastPoll (the DeliveryCursor in memory)
  stateFile,     \* the content of <state.dir>/last-poll, NoTime when absent
  nPolls,        \* number of polls and webhook posts so far
  emitted,       \* history: message id -> events the sources emitted for it
  notified,      \* history: message id -> notifyUnsupported calls for it
  startedAt,     \* history: the time of a start without state file, else NoTime
  firstSince,    \* history: the cursor sent as `since` in the first list_messages call
  lastResp,      \* history: the response of the latest poll if it advanced the cursor
  repeatEmits,   \* history: events emitted by the latest poll if it got lastResp again
  pollKind,      \* history: how the latest Poller.poll ended
  \* ---- normalize applied to a phone string
  phoneIn,       \* the input string
  phoneOut,      \* the result of the normalize calls so far
  normCalls,     \* number of normalize calls applied to phoneIn
  \* ---- concurrent callers of Guard.Check
  mu,            \* Guard.mu: 0 when free, else the caller that holds it
  callers,       \* per caller of Check: its position and its locals
  \* ---- Webhook receiver serving one POST /webhook (webhook.Server.handleEvent)
  appSecret,     \* Server.AppSecret is non-empty
  whReq,         \* the request being served: position, header, body, messages left
  whResp,        \* history: the latest response that reached the provider
  whPosts,       \* number of POST requests so far
  \* ---- gateway session (gateway.Client)
  gwConn,        \* Client.conn: "nil", "open", or "closed" (non-nil, already closed)
  gwSeq,         \* Client.seq
  gwCalls,       \* history: the Connect, Send and Close calls with their results
  \* ---- roles of the configuration (config.Load, security.New)
  cfgRoles,      \* cfg.Security.Roles: role -> the phone strings listed under it
  tomlRoles,     \* history: [security.roles] as the TOML file gave it
  envNumbers,    \* history: the numbers of KAPSO_ALLOWED_NUMBERS
  rolesPc,       \* "load" before config.Load, then "loaded"
  guardPhoneTo,  \* Guard.phoneTo of the latest start
  starts,        \* history: Guard.phoneTo of every start of the bridge
  \* ---- splitMessage applied to a text
  splitIn,       \* the text given to splitMessage
  maxLen,        \* the maxLen given to splitMessage
  splitText,     \* splitMessage's `text`: what is left to split
  splitChunks,   \* splitMessage's `chunks`
  splitPc,       \* "entry", "loop", "rest" or "done"
  \* ---- shutdown (main after the signal, cleanupFunnel, the tasks under the root context)
  mainPc,        \* main: "wait" (<-stop), "cleanup", "select", "return", "exited"
  funnelProc,    \* the tailscale child: "none", "running", "exited" or "killed"
  termAt,        \* history: the time of proc.Signal(SIGTERM), else NoTime
  killAt,        \* history: the time of proc.Kill, else NoTime
  exitAt,        \* history: the time the child exited by itself, else NoTime
  runPc,         \* per source the position of its Run: "off", "select"/"poll", "serve", "returned"
  inHandler,     \* a webhook handler is running (between its start and its return)
  chClosed,      \* Merge.Run's `ch` is closed
  outCloses,     \* history: number of close(out) calls
  mergePc,       \* Merge.Run: "loop" or "returned"
  cleanPc,       \* Merge.StartCleanup: "run" or "returned"
  rangePc,       \* the consume loop `for evt := range events`: "run" or "ended"
  lateSends,     \* history: sends on ch after it was closed
  shutLog,       \* history: the shutdown steps of main, in order
  \* ---- the chunk loop of relay tasks of one sender (Relay.Send)
  chunkJobs,     \* per relay task: the reply it claimed, its chunks, the next chunk
  chunkLog       \* history: the Client.SendText calls of the chunk loops, in order

mergeVars == <<ch, seen, hold, out, nEmit, fwdCount, accSinceDel, dropCount,
               purgePc, purgeTodo, purgeVisited, purges, firstSrc, fwdSincePurge>>

guardVars == <<mode, denyMessage, isolate, buckets, checkLog>>

orchVars  == <<consPc, cur, nArrived, handled, gwFrames, orchSends>>
relayVars == <<tasks, sessions, transcripts, claimed, grants, waSent, ctxDone>>

srcVars   == <<inbox, pollerPc, lastPoll, stateFile, nPolls, emitted, notified,
               startedAt, firstSince, lastResp, repeatEmits, pollKind>>
srcHist   == <<startedAt, firstSince, lastResp, repeatEmits, pollKind>>

normVars  == <<phoneIn, phoneOut, normCalls>>
concVars  == <<mu, callers>>
whVars    == <<appSecret, whReq, whResp, whPosts>>
gwcVars   == <<gwConn, gwSeq, gwCalls>>
roleVars  == <<cfgRoles, tomlRoles, envNumbers, rolesPc, guardPhoneTo, starts>>
splitVars == <<splitIn, maxLen, splitText, splitChunks, splitPc>>
shutVars  == <<mainPc, funnelProc, termAt, killAt, exitAt, runPc, inHandler, chClosed,
               outCloses, mergePc, cleanPc, rangePc, lateSends, shutLog>>
chunkVars == <<chunkJobs, chunkLog>>
lateVars  == <<shutVars, chunkVars>>
edgeVars  == <<whVars, gwcVars, roleVars, splitVars, lateVars>>

vars == <<mergeVars, now, guardVars, orchVars, relayVars, srcVars, normVars, concVars,
          edgeVars>>

\* What the actions of one component leave alone.
mergeRest == <<ch, seen, hold, nEmit, fwdCount, accSinceDel, dropCount,
               purgePc, purgeTodo, purgeVisited, purges, firstSrc, fwdSincePurge>>
notMerge == <<now, guardVars, orchVars, relayVars, srcVars, normVars, concVars, edgeVars>>
notGuard == <<mergeVars, orchVars, relayVars, srcVars, normVars, concVars, edgeVars>>
notClock == <<mergeVars, guardVars, orchVars, relayVars, srcVars, normVars, concVars, edgeVars>>
notRelay == <<mergeVars, now, guardVars, orchVars, srcVars, normVars, concVars, edgeVars>>
notSrc == <<mergeVars, now, guardVars, orchVars, relayVars, normVars, concVars, edgeVars>>
notNorm == <<mergeVars, now, guardVars, orchVars, relayVars, srcVars, concVars, edgeVars>>
notConc == <<mergeVars, orchVars, relayVars, srcVars, normVars, edgeVars>>
relayRest == <<sessions, transcripts, claimed, grants, waSent, ctxDone>>

(***************************************************************************)
(* Bounds                                                                  *)
(***************************************************************************)
MaxIds    == 2     \* distinct provider message ids
MaxEmit   == 3     \* events the sources emit in one run
ChanCap   == 2     \* capacity of ch and of out in the model
MaxPurges == 1     \* cleanups in one run

MaxTime   == 3     \* the clock stops advancing here
MaxChecks == 4     \* Guard.Check calls in one run
RateLimit == 2     \* security.rate_limit of the modelled configuration
RateWindow == 2    \* security.rate_window of the modelled configuration, in clock units
MaxEvents == 3     \* events Merge hands to the consume loop in one run
MaxTasks  == 2     \* relay tasks started in one run
MaxLines  == 2     \* lines the agent appends to the transcripts in one run
MaxRelayTime == 2  \* the clock stops advancing here while the relay is observed
DeadlineTicks == 1 \* the relay's 3-minute deadline, in clock units
MaxMsgs   == 2     \* inbound messages the provider receives in one run
MaxResp   == 2     \* messages in one list_messages response
MaxPolls  == 3     \* polls and webhook posts in one run
MaxPollTime == 2   \* the clock stops advancing here while the sources are observed
MaxPhoneLen == 3   \* length of the strings given to normalize
MaxCallers == 2    \* goroutines that call Guard.Check concurrently

Ids     == 1..MaxIds
Sources == {"poller", "webhook"}
NoEvent == [id |-> 0, from |-> <<>>, src |-> "none"]
MergeFrom == <<"1">>

(***************************************************************************)
(* Merge                                                                   *)
(***************************************************************************)
InitMerge ==
  /\ ch = <<>>
  /\ seen = {}
  /\ hold = NoEvent
  /\ out = <<>>
  /\ nEmit = 0
  /\ fwdCount = [i \in Ids |-> 0]
  /\ accSinceDel = [i \in Ids |-> 0]
  /\ dropCount = [i \in Ids |-> 0]
  /\ purgePc = "idle"
  /\ purgeTodo = {}
  /\ purgeVisited = {}
  /\ purges = 0
  /\ firstSrc = [i \in Ids |-> "none"]
  /\ fwdSincePurge = [i \in Ids |-> 0]

\* A send on a buffered channel: receivers get the values in the order sent.
ChanSendFront(q, e) == <<e>> \o q
ChanSend(q, e) == Append(q, e)

\* A source's `out <- delivery.Event{...}` on Merge's internal channel.
SourceEmit(s, i) ==
  /\ nEmit < MaxEmit
  /\ Len(ch) < ChanCap
  /\ ch' = ChanSend(ch, [id |-> i, from |-> MergeFrom, src |-> s])
  /\ nEmit' = nEmit + 1
  /\ UNCHANGED <<seen, hold, out, fwdCount, accSinceDel, dropCount,
                 purgePc, purgeTodo, purgeVisited, purges, firstSrc, fwdSincePurge>>
  /\ UNCHANGED notMerge

\* seen.LoadOrStore(evt.ID): loaded is true iff the id was already stored.
LoadOrStoreNoCheck(s, i) == FALSE
Loaded(s, i) == i \in s

\* Merge.Run: receive from ch, LoadOrStore, drop a duplicate or keep the event
\* for the send on out.
MergeRecv ==
  /\ hold = NoEvent
  /\ Len(ch) > 0
  /\ LET evt == Head(ch) IN
       /\ ch' = Tail(ch)
       /\ seen' = seen \cup {evt.id}
       /\ hold' = IF Loaded(seen, evt.id) THEN NoEvent ELSE evt
       /\ dropCount' = IF Loaded(seen, evt.id)
                          THEN [dropCount EXCEPT ![evt.id] = @ + 1]
                          ELSE dropCount
       /\ accSinceDel' = IF Loaded(seen, evt.id)
                            THEN accSinceDel
                            ELSE [accSinceDel EXCEPT ![evt.id] = @ + 1]
       /\ firstSrc' = IF firstSrc[evt.id] = "none"
                         THEN [firstSrc EXCEPT ![evt.id] = evt.src]
                         ELSE firstSrc
  /\ UNCHANGED <<out, nEmit, fwdCount,
                 purgePc, purgeTodo, purgeVisited, purges, fwdSincePurge>>
  /\ UNCHANGED notMerge

\* Merge.Run: `out <- evt`.
MergeForward ==
  /\ hold # NoEvent
  /\ Len(out) < ChanCap
  /\ out' = ChanSend(out, hold)
  /\ fwdCount' = [fwdCount EXCEPT ![hold.id] = @ + 1]
  /\ fwdSincePurge' = IF purgePc = "idle"
                         THEN [fwdSincePurge EXCEPT ![hold.id] = @ + 1]
                         ELSE fwdSincePurge
  /\ hold' = NoEvent
  /\ UNCHANGED <<ch, seen, nEmit, accSinceDel, dropCount, purgePc, purgeTodo, purgeVisited,
                 purges, firstSrc>>
  /\ UNCHANGED notMerge

\* StartCleanup: the ticker fires and seen.Range begins.  Range visits every
\* key that is present for the whole call, and no key twice.
CleanupStart ==
  /\ purgePc = "idle"
  /\ purges < MaxPurges
  /\ purgePc' = "range"
  /\ purgeTodo' = seen
  /\ purgeVisited' = {}
  /\ purges' = purges + 1
  /\ UNCHANGED <<ch, seen, hold, out, nEmit, fwdCount, accSinceDel, dropCount,
                 firstSrc, fwdSincePurge>>
  /\ UNCHANGED notMerge

\* seen.Range calls its callback for a key that is present, and for no key
\* more than once in one call of Range.
RangeVisitsAgain(k) == k \in seen
RangeVisits(k) == k \in seen \ purgeVisited

\* One callback of seen.Range: seen.Delete(key).  A key stored while Range runs
\* may or may not be visited.
CleanupDelete(k) ==
  /\ purgePc = "range"
  /\ RangeVisits(k)
  /\ seen' = seen \ {k}
  /\ purgeVisited' = purgeVisited \cup {k}
  /\ purgeTodo' = purgeTodo \ {k}
  /\ accSinceDel' = [accSinceDel EXCEPT ![k] = 0]
  /\ UNCHANGED <<ch, hold, out, nEmit, fwdCount, dropCount, purgePc, purges,
                 firstSrc, fwdSincePurge>>
  /\ UNCHANGED notMerge

\* seen.Range returns once every key of its snapshot has been visited.
CleanupEnd ==
  /\ purgePc = "range"
  /\ purgeTodo \ purgeVisited = {}
  /\ purgePc' = "idle"
  /\ purgeTodo' = {}
  /\ purgeVisited' = {}
  /\ fwdSincePurge' = [i \in Ids |-> 0]
  /\ UNCHANGED <<ch, seen, hold, out, nEmit, fwdCount, accSinceDel, dropCount, purges,
                 firstSrc>>
  /\ UNCHANGED notMerge

\* The consumer of `events` in main (`for evt := range events`), abstracted to
\* the receive.
Drain ==
  /\ Len(out) > 0
  /\ out' = Tail(out)
  /\ UNCHANGED <<ch, seen, hold, nEmit, fwdCount, accSinceDel, dropCount,
                 purgePc, purgeTodo, purgeVisited, purges, firstSrc, fwdSincePurge>>
  /\ UNCHANGED notMerge

NextMerge ==
  \/ \E s \in Sources, i \in Ids : SourceEmit(s, i)
  \/ MergeRecv
  \/ MergeForward
  \/ CleanupStart
  \/ \E k \in Ids : CleanupDelete(k)
  \/ CleanupEnd
  \/ Drain


(***************************************************************************)
(* Admission Guard                                                         *)
(***************************************************************************)
Digits == {"0", "1", "2", "3", "4", "5", "6", "7", "8", "9"}

\* The `from` values the model feeds to the Guard.
Froms == { <<"+", "1">>, <<"1">>, <<"1", "2">> }

RECURSIVE normalizeFromSecond(_, _)
normalizeFromSecond(phone, i) ==
  IF i > Len(phone) THEN <<>>
  ELSE (IF (phone[i] = "+" /\ i = 2) \/ phone[i] \in Digits
          THEN <<phone[i]>> ELSE <<>>) \o normalizeFromSecond(phone, i + 1)

RECURSIVE normalizeFrom(_, _)
normalizeFrom(phone, i) ==
  IF i > Len(phone) THEN <<>>
  ELSE (IF (phone[i] = "+" /\ i = 1) \/ phone[i] \in Digits
          THEN <<phone[i]>> ELSE <<>>) \o normalizeFrom(phone, i + 1)

\* normalize strips all characters except digits and a leading +.
normalize(phone) == IF phone = <<>> THEN <<>> ELSE normalizeFrom(phone, 1)

\* The characters of the strings given to normalize: the plus sign, two
\* digits and a formatting character.
PhoneChars == {"+", "1", "2", "-"}
Phones == UNION { [1..n -> PhoneChars] : n \in 0..MaxPhoneLen }

\* normalize has not been called.
InitNormIdle == phoneIn = <<>> /\ phoneOut = <<>> /\ normCalls = 0

\* Any string is about to be normalized.
InitNorm == phoneIn \in Phones /\ phoneOut = phoneIn /\ normCalls = 0

\* n := normalize(...) applied to the result so far.
ApplyNormalize ==
  /\ normCalls < 2
  /\ phoneOut' = normalize(phoneOut)
  /\ normCalls' = normCalls + 1
  /\ UNCHANGED phoneIn
  /\ UNCHANGED notNorm

NextNorm == ApplyNormalize

\* security.roles of the modelled configuration: role -> phones.
CfgRoles == [admin |-> { <<"+", "1">> }]

\* Guard.phoneTo as security.New builds it: normalized phone -> role.
phoneTo == { normalize(p) : p \in UNION { CfgRoles[r] : r \in DOMAIN CfgRoles } }

BucketKeys == { normalize(f) : f \in Froms }
NoBucket == [tokens |-> -1, windowEnd |-> -1]

\* security.New: the Guard of any configuration.
InitGuard ==
  /\ mode \in {"allowlist", "open"}
  /\ denyMessage \in {"", "denied"}
  /\ isolate \in BOOLEAN
  /\ buckets = [k \in BucketKeys |-> NoBucket]
  /\ checkLog = <<>>

\* security.New: the Guard of the default configuration apart from the mode
\* (config.go: deny message set, session isolation on).
InitGuardDefault ==
  /\ mode \in {"allowlist", "open"}
  /\ denyMessage = "denied"
  /\ isolate = TRUE
  /\ buckets = [k \in BucketKeys |-> NoBucket]
  /\ checkLog = <<>>

\* Check: `!ok || now.After(b.windowEnd)`.
WindowExpired(b, t) == b = NoBucket \/ t > b.windowEnd

\* Check: `b.tokens <= 0`.
ExhaustedNever(b) == FALSE
Exhausted(b) == b.tokens <= 0

\* The verdict of Guard.Check(from) at time t with the buckets bk.
CheckVerdictNoAllowlist(bk, from, t) ==
  LET n == normalize(from) IN
    IF WindowExpired(bk[n], t) THEN "Allow"
    ELSE IF Exhausted(bk[n]) THEN "RateLimited"
    ELSE "Allow"

CheckVerdict(bk, from, t) ==
  LET n == normalize(from) IN
    IF mode = "allowlist" /\ n \notin phoneTo THEN "Deny"
    ELSE IF WindowExpired(bk[n], t) THEN "Allow"
    ELSE IF Exhausted(bk[n]) THEN "RateLimited"
    ELSE "Allow"

\* The buckets after Guard.Check(from) at time t.
CheckBuckets(bk, from, t) ==
  LET n == normalize(from) IN
    IF mode = "allowlist" /\ n \notin phoneTo THEN bk
    ELSE IF WindowExpired(bk[n], t)
      THEN [bk EXCEPT ![n] = [tokens |-> RateLimit - 1, windowEnd |-> t + RateWindow]]
    ELSE IF Exhausted(bk[n]) THEN bk
    ELSE [bk EXCEPT ![n] = [tokens |-> bk[n].tokens - 1, windowEnd |-> bk[n].windowEnd]]

\* The history record of a Check call.
CheckRecord(bk, from, t) ==
  [key |-> normalize(from), t |-> t, verdict |-> CheckVerdict(bk, from, t),
   reset |-> CheckVerdict(bk, from, t) # "Deny" /\ WindowExpired(bk[normalize(from)], t)]

\* A call of Guard.Check(from).
GuardCheck(from) ==
  /\ Len(checkLog) < MaxChecks
  /\ buckets' = CheckBuckets(buckets, from, now)
  /\ checkLog' = Append(checkLog, CheckRecord(buckets, from, now))
  /\ UNCHANGED <<now, mode, denyMessage, isolate>>
  /\ UNCHANGED notGuard

\* Time passes, up to maxT.
Tick(maxT) ==
  /\ now < maxT
  /\ now' = now + 1
  /\ UNCHANGED notClock

NextGuard ==
  \/ \E f \in Froms : GuardCheck(f)
  \/ Tick(MaxTime)


(***************************************************************************)
(* Guard.Check called from several goroutines                              *)
(***************************************************************************)
Callers == 1..MaxCallers
IdleCaller == [pc |-> "idle", n |-> <<>>, t |-> 0, b |-> NoBucket]

\* No Check call is in progress and the mutex is free.
InitCallers == mu = 0 /\ callers = [c \in Callers |-> IdleCaller]

\* g.mu.Lock() succeeds only while nobody holds the mutex.
MuFreeAlways(m) == TRUE
MuFree(m) == m = 0

\* Check up to g.mu.Lock(): normalize, and in allowlist mode return Deny for
\* a number that is not in phoneTo.
CheckEnter(c, from) ==
  /\ callers[c].pc = "idle"
  /\ Len(checkLog) + Cardinality({ d \in Callers : callers[d].pc # "idle" }) < MaxChecks
  /\ IF mode = "allowlist" /\ normalize(from) \notin phoneTo
       THEN /\ checkLog' = Append(checkLog, [key |-> normalize(from), t |-> now,
                                             verdict |-> "Deny", reset |-> FALSE])
            /\ UNCHANGED callers
       ELSE /\ callers' = [callers EXCEPT ![c].pc = "lock", ![c].n = normalize(from)]
            /\ UNCHANGED checkLog
  /\ UNCHANGED <<now, mode, denyMessage, isolate, buckets, mu>>
  /\ UNCHANGED notConc

\* g.mu.Lock().
CheckLock(c) ==
  /\ callers[c].pc = "lock"
  /\ MuFree(mu)
  /\ mu' = c
  /\ callers' = [callers EXCEPT ![c].pc = "read"]
  /\ UNCHANGED <<now, guardVars>>
  /\ UNCHANGED notConc

\* now := g.now(); b, ok := g.buckets[n].
CheckRead(c) ==
  /\ callers[c].pc = "read"
  /\ callers' = [callers EXCEPT ![c].pc = "write", ![c].t = now, ![c].b = buckets[callers[c].n]]
  /\ UNCHANGED <<now, guardVars, mu>>
  /\ UNCHANGED notConc

\* The rest of Check on what CheckRead found: a new bucket, RateLimited, or
\* b.tokens--; then the deferred g.mu.Unlock().
CheckWrite(c) ==
  /\ callers[c].pc = "write"
  /\ LET n == callers[c].n
         t == callers[c].t
         b == callers[c].b
         v == IF WindowExpired(b, t) THEN "Allow"
              ELSE IF Exhausted(b) THEN "RateLimited" ELSE "Allow"
     IN
       /\ buckets' =
            IF WindowExpired(b, t)
              THEN [buckets EXCEPT ![n] = [tokens |-> RateLimit - 1, windowEnd |-> t + RateWindow]]
            ELSE IF Exhausted(b) THEN buckets
            ELSE [buckets EXCEPT ![n] = [tokens |-> b.tokens - 1, windowEnd |-> b.windowEnd]]
       /\ checkLog' = Append(checkLog, [key |-> n, t |-> t, verdict |-> v,
                                        reset |-> WindowExpired(b, t)])
  /\ mu' = IF mu = c THEN 0 ELSE mu
  /\ callers' = [callers EXCEPT ![c] = IdleCaller]
  /\ UNCHANGED <<now, mode, denyMessage, isolate>>
  /\ UNCHANGED notConc

NextGuardConc ==
  \/ \E c \in Callers, f \in Froms : CheckEnter(c, f)
  \/ \E c \in Callers : CheckLock(c)
  \/ \E c \in Callers : CheckRead(c)
  \/ \E c \in Callers : CheckWrite(c)
  \/ Tick(MaxTime)


(***************************************************************************)
(* Orchestrator: the consume loop of main                                  *)
(***************************************************************************)
\* gateway.session_key of the modelled configuration, and the "-wa-" infix.
BaseKey == <<"m">>
WaInfix == <<"-", "w", "a", "-">>

\* strings.TrimPrefix(n, "+").
TrimPlus(n) == IF Len(n) > 0 /\ n[1] = "+" THEN Tail(n) ELSE n

\* Guard.SessionKey(baseKey, from).
SessionKey(baseKey, from) ==
  IF ~isolate THEN baseKey ELSE baseKey \o WaInfix \o TrimPlus(normalize(from))

InitOrch ==
  /\ consPc = "recv"
  /\ cur = [h |-> 0, id |-> 0, from |-> <<>>]
  /\ nArrived = 0
  /\ handled = <<>>
  /\ gwFrames = <<>>
  /\ orchSends = {}


\* Merge.Run hands an event to the consume loop (`out <- evt`); Merge and the
\* sources are abstracted to the event that arrives, the n-th with id n.
EventArrives(f) ==
  /\ nArrived < MaxEvents
  /\ Len(out) < ChanCap
  /\ out' = Append(out, [id |-> nArrived + 1, from |-> f, src |-> "poller"])
  /\ nArrived' = nArrived + 1
  /\ UNCHANGED <<mergeRest, now, guardVars, consPc, cur, handled, gwFrames,
                 orchSends, relayVars, srcVars,
                 normVars, concVars,
                 edgeVars>>

\* The consume loop after the switch on the verdict: Deny and RateLimited
\* `continue`, Allow goes on to gw.Send.
AfterVerdictFallThrough(v) == "send"
AfterVerdict(v) == IF v = "Allow" THEN "send" ELSE "recv"

\* The consume loop sends the deny message: `case security.Deny` with a
\* non-empty guard.DenyMessage().
DenyReplyAnyRefusal(v, msg) == v # "Allow" /\ msg # ""
DenyReplyNever(v, msg) == FALSE
DenyReply(v, msg) == v = "Deny" /\ msg # ""

\* The consume loop receives an event, calls guard.Check and handles a Deny or
\* RateLimited verdict.
ConsumeCheck ==
  /\ consPc = "recv"
  /\ Len(out) > 0
  /\ LET evt == Head(out)
         v   == CheckVerdict(buckets, evt.from, now)
         h   == Len(handled) + 1
     IN
       /\ out' = Tail(out)
       /\ buckets' = CheckBuckets(buckets, evt.from, now)
       /\ handled' = Append(handled, [id |-> evt.id, from |-> evt.from, verdict |-> v])
       /\ orchSends' = IF DenyReply(v, denyMessage)
                         THEN orchSends \cup {[h |-> h, to |-> evt.from, body |-> denyMessage]}
                         ELSE orchSends
       /\ consPc' = AfterVerdict(v)
       /\ cur' = [h |-> h, id |-> evt.id, from |-> evt.from]
  /\ UNCHANGED <<mergeRest, now, mode, denyMessage, isolate, checkLog, nArrived,
                 gwFrames, relayVars, srcVars,
                 normVars, concVars,
                 edgeVars>>

\* The consume loop after gw.Send: on an error it logs and continues with the
\* next event, else it goes on to start the relay task.
AfterGwSendReturn(ok) == IF ok THEN "spawn" ELSE "ended"
AfterGwSend(ok) == IF ok THEN "spawn" ELSE "recv"

\* gw.Send(sessionKey, evt.ID, taggedText): the frame is written, or Send
\* returns an error and the loop continues with the next event.
ConsumeGwSend(ok) ==
  /\ consPc = "send"
  /\ gwFrames' = IF ok
                   THEN Append(gwFrames, [h |-> cur.h, sessionKey |-> SessionKey(BaseKey, cur.from),
                                          idempotencyKey |-> cur.id, t |-> now])
                   ELSE gwFrames
  /\ consPc' = AfterGwSend(ok)
  /\ UNCHANGED <<mergeVars, now, guardVars, cur, nArrived, handled, orchSends, relayVars,
                 srcVars, normVars, concVars,
                 edgeVars>>

\* A relay task as `go rel.Send(ctx, from, sessionKey, since)` starts it.
\* saw, reached and missed are history: whether a tick's read returned a
\* reply nobody had claimed at that moment, whether the
\* claim loop reached a reply nobody had claimed, and the length of the longest
\* reply list the claim loop went through without a successful claim.
NewTask(h, from, key, since) ==
  [h |-> h, from |-> from, key |-> key, since |-> since, pc |-> "start",
   deadline |-> 0, replies |-> <<>>, idx |-> 0,
   saw |-> FALSE, reached |-> FALSE, missed |-> 0]

\* go rel.Send(ctx, evt.From, sessionKey, time.Now().UTC()).
ConsumeSpawn ==
  /\ consPc = "spawn"
  /\ tasks' = Append(tasks, NewTask(cur.h, cur.from, SessionKey(BaseKey, cur.from), now))
  /\ consPc' = "recv"
  /\ UNCHANGED <<mergeVars, now, guardVars, cur, nArrived, handled, gwFrames, orchSends,
                 relayRest, srcVars, normVars, concVars,
                 edgeVars>>

NextOrch ==
  \/ \E f \in Froms : EventArrives(f)
  \/ ConsumeCheck
  \/ \E ok \in BOOLEAN : ConsumeGwSend(ok)
  \/ ConsumeSpawn
  \/ Tick(MaxTime)


(***************************************************************************)
(* Reply relay                                                             *)
(***************************************************************************)
\* The senders whose events are forwarded while the relay is observed.
RelayFroms == { <<"1">>, <<"1", "2">> }

\* The session keys the sessions index can hold: those of the senders.
SessionKeys == { SessionKey(BaseKey, f) : f \in RelayFroms }

\* The number of transcript lines written so far.
RECURSIVE SumLen(_, _)
SumLen(tr, ks) ==
  IF ks = {} THEN 0
  ELSE LET k == CHOOSE x \in ks : TRUE IN Len(tr[k]) + SumLen(tr, ks \ {k})

\* The kinds of transcript line: a completed assistant turn (type "message",
\* role "assistant", stopReason "stop") with a non-empty text block, one with
\* none, and any other line.
LineKinds == {"turn", "textless", "other"}

InitRelay ==
  /\ tasks = <<>>
  /\ sessions = {}
  /\ transcripts = [k \in { BaseKey \o WaInfix \o TrimPlus(normalize(f)) : f \in RelayFroms } |-> <<>>]
  /\ claimed = {}
  /\ grants = <<>>
  /\ waSent = <<>>
  /\ ctxDone = FALSE

\* strings.Contains(s, sub).
Contains(s, sub) ==
  \E i \in 1..(Len(s) - Len(sub) + 1) : SubSeq(s, i, i + Len(sub) - 1) = sub

\* The canonical key of the sessions index: "agent:KEY:KEY".
CanonicalKey(k) == <<"a", "g", "e", "n", "t", ":">> \o k \o <<":">> \o k

\* getSessionFile: the session files it can return for sessionKey (the file of
\* session K is named K); the empty set is its error return.  The fallback
\* ranges over a Go map, so any matching entry can come first.
getSessionFile(idx, sessionKey) ==
  IF sessionKey \in idx THEN {sessionKey}
  ELSE { k \in idx : Contains(CanonicalKey(k), sessionKey) }

\* getAssistantReplies: whether line l is appended to `replies`.
IsReplyNoSince(l, since) == l.kind = "turn"
IsReply(l, since) == l.kind = "turn" /\ ~(l.ts < since)

RECURSIVE repliesFrom(_, _, _, _)
repliesFrom(file, lines, since, i) ==
  IF i > Len(lines) THEN <<>>
  ELSE (IF IsReply(lines[i], since) THEN << <<file, i>> >> ELSE <<>>)
         \o repliesFrom(file, lines, since, i + 1)

\* getAssistantReplies(sessionFile, since): the claim keys in file order.
getAssistantReplies(file, since) == repliesFrom(file, transcripts[file], since, 1)

\* Tracker.Claim(key): true iff the key was not claimed before.
ClaimAlways(cl, key) == TRUE
Claim(cl, key) == key \notin cl

\* Relay.Send's claim loop after a failed Claim: try the next reply, if any.
GiveUpAfterFirst(i, n) == FALSE
HasNextReply(i, n) == i < n

\* Relay.Send: `to` is `from` with a leading "+".
ToOf(from) == IF Len(from) > 0 /\ from[1] = "+" THEN from ELSE <<"+">> \o from

\* The agent (or its host) registers a session in the sessions index.
AgentRegister(k) ==
  /\ k \notin sessions
  /\ sessions' = sessions \cup {k}
  /\ UNCHANGED <<tasks, transcripts, claimed, grants, waSent, ctxDone>>
  /\ UNCHANGED notRelay

\* The agent appends a line to a session's transcript.
AgentAppend(k, kind) ==
  /\ k \in sessions
  /\ SumLen(transcripts, DOMAIN transcripts) < MaxLines
  /\ transcripts' = [transcripts EXCEPT ![k] = Append(@, [kind |-> kind, ts |-> now])]
  /\ UNCHANGED <<tasks, sessions, claimed, grants, waSent, ctxDone>>
  /\ UNCHANGED notRelay

\* go rel.Send(ctx, evt.From, sessionKey, time.Now().UTC()) for a forwarded
\* event of sender f; the consume loop is abstracted to the spawn.
RelaySpawn(f, maxTasks) ==
  /\ Len(tasks) < maxTasks
  /\ tasks' = Append(tasks, NewTask(0, f, SessionKey(BaseKey, f), now))
  /\ UNCHANGED relayRest
  /\ UNCHANGED notRelay

\* Relay.Send: deadline := time.Now().Add(3 * time.Minute), and the first
\* pass through the head of the loop, where the deadline has not passed.
RelayStart(t) ==
  /\ tasks[t].pc = "start"
  /\ tasks' = [tasks EXCEPT ![t].pc = "select", ![t].deadline = now + DeadlineTicks]
  /\ UNCHANGED relayRest
  /\ UNCHANGED notRelay

\* Relay.Send, head of the loop: return on time.Now().After(deadline).
RelayTop(t) ==
  /\ tasks[t].pc = "top"
  /\ tasks' = [tasks EXCEPT ![t].pc = IF now > tasks[t].deadline THEN "timeout" ELSE "select"]
  /\ UNCHANGED relayRest
  /\ UNCHANGED notRelay

\* Relay.Send: `case <-ctx.Done(): return`.
RelayCancelled(t) ==
  /\ tasks[t].pc = "select"
  /\ ctxDone
  /\ tasks' = [tasks EXCEPT ![t].pc = "cancelled"]
  /\ UNCHANGED relayRest
  /\ UNCHANGED notRelay

\* Relay.Send: `case <-ticker.C:`, with getSessionFile failing or the
\* transcript unreadable (ok = FALSE): continue.
RelayTickError(t) ==
  /\ tasks[t].pc = "select"
  /\ tasks' = [tasks EXCEPT ![t].pc = "top"]
  /\ UNCHANGED relayRest
  /\ UNCHANGED notRelay

\* Relay.Send: `case <-ticker.C:`, getSessionFile returns file f and
\* getAssistantReplies reads it.  With no reply collected, text stays "" and
\* the loop continues.
RelayTick(t, f) ==
  /\ tasks[t].pc = "select"
  /\ f \in getSessionFile(sessions, tasks[t].key)
  /\ LET rs == getAssistantReplies(f, tasks[t].since) IN
       tasks' = [tasks EXCEPT
                   ![t].replies = rs,
                   ![t].idx = IF rs = <<>> THEN 0 ELSE 1,
                   ![t].pc = IF rs = <<>> THEN "top" ELSE "claim",
                   ![t].saw = @ \/ \E i \in 1..Len(rs) : rs[i] \notin claimed]
  /\ UNCHANGED relayRest
  /\ UNCHANGED notRelay

\* Relay.Send: one r.Tracker.Claim(reply.Key) of the claim loop.
RelayClaim(t) ==
  /\ tasks[t].pc = "claim"
  /\ LET key == tasks[t].replies[tasks[t].idx]
         n   == Len(tasks[t].replies)
     IN
       IF Claim(claimed, key)
         THEN /\ claimed' = claimed \cup {key}
              /\ grants' = Append(grants, [task |-> t, key |-> key])
              /\ tasks' = [tasks EXCEPT ![t].pc = "send",
                                        ![t].reached = @ \/ key \notin claimed]
         ELSE /\ UNCHANGED <<claimed, grants>>
              /\ tasks' = IF HasNextReply(tasks[t].idx, n)
                            THEN [tasks EXCEPT ![t].idx = @ + 1,
                                               ![t].reached = @ \/ key \notin claimed]
                            ELSE [tasks EXCEPT ![t].pc = "top",
                                               ![t].replies = <<>>,
                                               ![t].idx = 0,
                                               ![t].reached = @ \/ key \notin claimed,
                                               ![t].missed = IF n > @ THEN n ELSE @]
  /\ UNCHANGED <<sessions, transcripts, waSent, ctxDone>>
  /\ UNCHANGED notRelay

\* Relay.Send: transcode, split and pass every chunk of the claimed text to
\* Client.SendText (a failed chunk is logged), then return.
RelaySend(t) ==
  /\ tasks[t].pc = "send"
  /\ LET key == tasks[t].replies[tasks[t].idx] IN
       waSent' = Append(waSent, [task |-> t, to |-> ToOf(tasks[t].from),
                                 file |-> key[1], line |-> key[2]])
  /\ tasks' = [tasks EXCEPT ![t].pc = "done", ![t].replies = <<>>, ![t].idx = 0]
  /\ UNCHANGED <<sessions, transcripts, claimed, grants, ctxDone>>
  /\ UNCHANGED notRelay

\* main: cancel() on SIGINT/SIGTERM.
Cancel ==
  /\ ~ctxDone
  /\ ctxDone' = TRUE
  /\ UNCHANGED <<tasks, sessions, transcripts, claimed, grants, waSent>>
  /\ UNCHANGED notRelay

\* Concurrent relay tasks of one sender on that sender's transcript.
NextRelay ==
  \/ \E k \in SessionKeys, kind \in LineKinds : AgentAppend(k, kind)
  \/ RelaySpawn(<<"1">>, MaxTasks)
  \/ \E t \in 1..Len(tasks) : RelayStart(t)
  \/ \E t \in 1..Len(tasks) : RelayTop(t)
  \/ \E t \in 1..Len(tasks) : RelayCancelled(t)
  \/ \E t \in 1..Len(tasks) : RelayTickError(t)
  \/ \E t \in 1..Len(tasks), f \in SessionKeys : RelayTick(t, f)
  \/ \E t \in 1..Len(tasks) : RelayClaim(t)
  \/ \E t \in 1..Len(tasks) : RelaySend(t)
  \/ Cancel
  \/ Tick(MaxRelayTime)

\* One relay task of either sender, with the sessions index filling up.
NextSession ==
  \/ \E k \in SessionKeys : AgentRegister(k)
  \/ \E k \in SessionKeys, kind \in LineKinds : AgentAppend(k, kind)
  \/ \E f \in RelayFroms : RelaySpawn(f, 1)
  \/ \E t \in 1..Len(tasks) : RelayStart(t)
  \/ \E t \in 1..Len(tasks) : RelayTop(t)
  \/ \E t \in 1..Len(tasks) : RelayTickError(t)
  \/ \E t \in 1..Len(tasks), f \in SessionKeys : RelayTick(t, f)
  \/ \E t \in 1..Len(tasks) : RelayClaim(t)
  \/ \E t \in 1..Len(tasks) : RelaySend(t)
  \/ Tick(MaxRelayTime)


(***************************************************************************)
(* Provider, Poller and Webhook receiver                                   *)
(***************************************************************************)
\* The zero time.Time, and an absent or unparsable state file or timestamp.
NoTime == -1

\* Message types: one supported type and one that ExtractText does not know.
MsgTypes == {"text", "sticker"}

InitSources ==
  /\ inbox = {}
  /\ pollerPc = "init"
  /\ lastPoll = NoTime
  /\ stateFile \in {NoTime, 0}
  /\ nPolls = 0
  /\ emitted = [i \in 1..MaxMsgs |-> 0]
  /\ notified = [i \in 1..MaxMsgs |-> 0]
  /\ startedAt = NoTime
  /\ firstSince = NoTime
  /\ lastResp = <<>>
  /\ repeatEmits = 0
  /\ pollKind = "none"

\* ExtractText: ok is true for a supported type whose content is present.
ExtractOk(m) == m.type = "text" /\ m.content

\* ExtractText: the default branch starts notifyUnsupported.
Notifies(m) == m.type \notin {"text", "image", "document", "audio", "video", "location"}

\* parseTimestamp: the parsed time, NoTime when the string parses neither as
\* RFC3339 nor as epoch seconds.
parseTimestamp(ts) == ts

\* Poller.poll: `newest` after the messages resp[1..n].
RECURSIVE newestOf(_, _)
newestOf(resp, n) ==
  IF n = 0 THEN NoTime
  ELSE LET prev == newestOf(resp, n - 1)
           t    == parseTimestamp(resp[n].ts)
       IN IF ExtractOk(resp[n]) /\ t # NoTime /\ t > prev THEN t ELSE prev

\* Poller.poll: no message of the response is both emitted and stamped with a
\* timestamp that parses, so `newest` is still the zero time after the loop.
Unstamped(resp) ==
  \A n \in 1..Len(resp) : ~(ExtractOk(resp[n]) /\ parseTimestamp(resp[n].ts) # NoTime)

\* Poller.poll: the cursor after the response.
CursorAfterEveryPoll(cursor, resp) == cursor + 1
CursorAfter(cursor, resp) ==
  IF newestOf(resp, Len(resp)) # NoTime THEN newestOf(resp, Len(resp)) + 1 ELSE cursor

\* Poller.poll: the events emitted and the notifications started for message
\* id i while the loop goes through resp.
EmitsOf(resp, i) == Cardinality({ n \in 1..Len(resp) : resp[n].id = i /\ ExtractOk(resp[n]) })
NotifiesOf(resp, i) == Cardinality({ n \in 1..Len(resp) : resp[n].id = i /\ Notifies(resp[n]) })

\* The list_messages responses: duplicate-free sequences of held messages.
Responses ==
  { r \in UNION { [1..n -> inbox] : n \in 0..MaxResp } :
      \A a, b \in 1..Len(r) : a # b => r[a] # r[b] }

\* A message reaches the provider: the next id, stamped with the current time
\* or with a timestamp that does not parse.
ProviderReceives(type, content, tsOk) ==
  /\ Cardinality(inbox) < MaxMsgs
  /\ inbox' = inbox \cup {[id |-> Cardinality(inbox) + 1, type |-> type, content |-> content,
                           ts |-> IF tsOk THEN now ELSE NoTime]}
  /\ UNCHANGED <<pollerPc, lastPoll, stateFile, nPolls, emitted, notified, srcHist>>
  /\ UNCHANGED notSrc

\* Poller.Run: lastPoll after loadState and the IsZero branch, for the state
\* file content `file` at time t.
FirstCursorZero(file, t) == IF file = NoTime THEN 0 ELSE file
FirstCursor(file, t) == IF file = NoTime THEN t ELSE file

\* Poller.Run up to the first poll: loadState, and on a first run
\* lastPoll = now and saveState (os.WriteFile's error is ignored: saved is
\* false when the write fails).
PollerStart(saved) ==
  /\ pollerPc = "init"
  /\ pollerPc' = "run"
  /\ lastPoll' = FirstCursor(stateFile, now)
  /\ stateFile' = IF stateFile = NoTime /\ saved THEN FirstCursor(stateFile, now) ELSE stateFile
  /\ startedAt' = IF stateFile = NoTime THEN now ELSE NoTime
  /\ UNCHANGED <<inbox, nPolls, emitted, notified, firstSince, lastResp, repeatEmits, pollKind>>
  /\ UNCHANGED notSrc

\* Poller.poll: `since` of the first ListMessages call of the run.
FirstSinceAfter == IF firstSince = NoTime THEN lastPoll ELSE firstSince

\* Poller.poll with ListMessages failing or returning no data: return.
PollNothing ==
  /\ pollerPc = "run"
  /\ nPolls < MaxPolls
  /\ nPolls' = nPolls + 1
  /\ firstSince' = FirstSinceAfter
  /\ lastResp' = <<>>
  /\ repeatEmits' = 0
  /\ pollKind' = "failed"
  /\ UNCHANGED <<inbox, pollerPc, lastPoll, stateFile, emitted, notified, startedAt>>
  /\ UNCHANGED notSrc

\* Poller.poll with the response resp: every message goes through
\* ExtractText, the ones it accepts are emitted, and the cursor moves to the
\* newest emitted timestamp + 1s and is saved.
Poll(resp, saved) ==
  /\ pollerPc = "run"
  /\ nPolls < MaxPolls
  /\ resp # <<>>
  /\ nPolls' = nPolls + 1
  /\ emitted' = [i \in 1..MaxMsgs |-> emitted[i] + EmitsOf(resp, i)]
  /\ notified' = [i \in 1..MaxMsgs |-> notified[i] + NotifiesOf(resp, i)]
  /\ lastPoll' = CursorAfter(lastPoll, resp)
  /\ stateFile' = IF newestOf(resp, Len(resp)) # NoTime /\ saved
                    THEN CursorAfter(lastPoll, resp) ELSE stateFile
  /\ firstSince' = FirstSinceAfter
  /\ lastResp' = IF newestOf(resp, Len(resp)) # NoTime THEN resp ELSE <<>>
  /\ repeatEmits' = IF resp = lastResp
                       THEN Cardinality({ n \in 1..Len(resp) : ExtractOk(resp[n]) })
                       ELSE 0
  /\ pollKind' = IF Unstamped(resp) THEN "unstamped" ELSE "advanced"
  /\ UNCHANGED <<inbox, pollerPc, startedAt>>
  /\ UNCHANGED notSrc

\* Server.handleEvent for a POST that carries message m.
WebhookPost(m) ==
  /\ nPolls < MaxPolls
  /\ nPolls' = nPolls + 1
  /\ emitted' = [emitted EXCEPT ![m.id] = @ + (IF ExtractOk(m) THEN 1 ELSE 0)]
  /\ notified' = [notified EXCEPT ![m.id] = @ + (IF Notifies(m) THEN 1 ELSE 0)]
  /\ UNCHANGED <<inbox, pollerPc, lastPoll, stateFile, srcHist>>
  /\ UNCHANGED notSrc

NextSources ==
  \/ \E type \in MsgTypes, content \in BOOLEAN, tsOk \in BOOLEAN :
       ProviderReceives(type, content, tsOk)
  \/ \E saved \in BOOLEAN : PollerStart(saved)
  \/ PollNothing
  \/ \E resp \in Responses, saved \in BOOLEAN : Poll(resp, saved)
  \/ \E m \in inbox : WebhookPost(m)
  \/ Tick(MaxPollTime)

\* The Poller from its start to the end of its first poll, next to the
\* provider and the clock.
NextFirstPoll ==
  \/ \E type \in MsgTypes, content \in BOOLEAN, tsOk \in BOOLEAN :
       ProviderReceives(type, content, tsOk)
  \/ \E saved \in BOOLEAN : PollerStart(saved)
  \/ firstSince = NoTime /\ PollNothing
  \/ \E resp \in Responses, saved \in BOOLEAN : firstSince = NoTime /\ Poll(resp, saved)
  \/ Tick(MaxPollTime)

\* ListMessages(Direction "inbound", Since since) answered by a provider that
\* applies the filter: the response holds every message stamped at or after
\* `since`, and besides those only messages whose timestamp the bridge
\* cannot parse.
HonoursSince(resp, since) ==
  LET got == { resp[n] : n \in 1..Len(resp) }
  IN /\ { m \in inbox : m.ts # NoTime /\ m.ts >= since } \subseteq got
     /\ got \subseteq { m \in inbox : m.ts = NoTime \/ m.ts >= since }

\* The Poller against a provider that applies `since`.
NextSincePoll ==
  \/ \E type \in MsgTypes, content \in BOOLEAN, tsOk \in BOOLEAN :
       ProviderReceives(type, content, tsOk)
  \/ \E saved \in BOOLEAN : PollerStart(saved)
  \/ PollNothing
  \/ \E resp \in Responses, saved \in BOOLEAN :
       HonoursSince(resp, lastPoll) /\ Poll(resp, saved)
  \/ Tick(MaxPollTime)

\* The sources before Poller.Run, with no state file.
InitSourcesIdle == InitSources /\ stateFile = NoTime

(***************************************************************************)
(* Webhook receiver: Server.handleEvent serving one POST /webhook          *)
(***************************************************************************)
MaxPosts == 2      \* POST requests in one run

\* The status codes handleEvent answers with.
StatusOK == 200
StatusBadRequest == 400
StatusUnauthorized == 401

\* A request body: whether json.Unmarshal accepts it and, per message of the
\* payload in order, whether ExtractText accepts the message.
Bodies ==
  {[json |-> FALSE, msgs |-> <<>>]} \cup
  { [json |-> TRUE, msgs |-> m] : m \in UNION { [1..n -> BOOLEAN] : n \in 0..MaxIds } }

\* X-Hub-Signature-256 as a sequence of tokens: the literal "sha256=" and
\* hex digests. HexMac(body) is hex.EncodeToString of the HMAC-SHA256 of the
\* body under AppSecret: one token per body, different bodies giving
\* different digests.
Sha256Prefix == [kind |-> "sha256=", json |-> FALSE, msgs |-> <<>>]
HexMac(body) == [kind |-> "hex", json |-> body.json, msgs |-> body.msgs]

\* Some body other than `body`.
OtherBody(body) == [json |-> body.json, msgs |-> Append(body.msgs, TRUE)]

\* The headers a request for `body` may carry: none, the prefixed digest, the
\* bare digest, the prefixed digest of another body, the prefix alone, and
\* the digest behind a doubled prefix.
Headers(body) ==
  { <<>>,
    <<Sha256Prefix, HexMac(body)>>,
    <<HexMac(body)>>,
    <<Sha256Prefix, HexMac(OtherBody(body))>>,
    <<Sha256Prefix>>,
    <<Sha256Prefix, Sha256Prefix, HexMac(body)>> }

\* strings.TrimPrefix(header, "sha256=").
TrimPrefix(header) ==
  IF Len(header) > 0 /\ header[1] = Sha256Prefix THEN Tail(header) ELSE header

\* validSignature(body, header, secret).
validSignature(body, header) ==
  IF header = <<>> THEN FALSE
  ELSE TrimPrefix(header) = <<HexMac(body)>>

\* handleEvent up to `w.WriteHeader(http.StatusOK)`: the status it decides on.
HandleStatus(header, body) ==
  IF appSecret /\ ~validSignature(body, header) THEN StatusUnauthorized
  ELSE IF ~body.json THEN StatusBadRequest
  ELSE StatusOK

NoBody == [json |-> FALSE, msgs |-> <<>>]
IdleReq == [pc |-> "idle", hdr |-> <<>>, body |-> NoBody, at |-> 0, nOut |-> 0]
NoResp == [status |-> 0, hdr |-> <<>>, body |-> NoBody, nOut |-> 0]

InitWebhookIdle ==
  /\ appSecret = TRUE
  /\ whReq = IdleReq
  /\ whResp = NoResp
  /\ whPosts = 0

InitWebhook ==
  /\ appSecret \in BOOLEAN
  /\ whReq = IdleReq
  /\ whResp = NoResp
  /\ whPosts = 0

\* handleEvent from its entry to the loop over the messages. http.Error
\* writes the refusal and the handler returns, which sends the response.
\* w.WriteHeader(http.StatusOK) records the status in the ResponseWriter;
\* the handler writes no body and never flushes, so net/http sends the
\* response when the handler returns.
HandleEventStart(header, body) ==
  /\ whReq.pc = "idle"
  /\ whPosts < MaxPosts
  /\ whPosts' = whPosts + 1
  /\ IF HandleStatus(header, body) = StatusOK
       THEN /\ whReq' = [pc |-> "serve", hdr |-> header, body |-> body, at |-> 0, nOut |-> 0]
            /\ UNCHANGED whResp
       ELSE /\ whResp' = [status |-> HandleStatus(header, body), hdr |-> header,
                          body |-> body, nOut |-> 0]
            /\ UNCHANGED whReq
  /\ UNCHANGED <<appSecret, gwcVars, roleVars, splitVars, lateVars>>
  /\ UNCHANGED <<mergeVars, now, guardVars, orchVars, relayVars, srcVars, normVars, concVars>>

\* handleEvent: ExtractText accepts the next message and `out <- Event`
\* hands it to Merge's channel; the send waits while the channel is full.
HandleEventEmit ==
  /\ whReq.pc = "serve"
  /\ whReq.at < Len(whReq.body.msgs)
  /\ whReq.body.msgs[whReq.at + 1]
  /\ Len(ch) < ChanCap
  /\ ch' = Append(ch, [id |-> whReq.at + 1, from |-> MergeFrom, src |-> "webhook"])
  /\ nEmit' = nEmit + 1
  /\ whReq' = [whReq EXCEPT !.at = @ + 1, !.nOut = @ + 1]
  /\ UNCHANGED <<appSecret, whResp, whPosts, gwcVars, roleVars, splitVars, lateVars>>
  /\ UNCHANGED <<seen, hold, out, fwdCount, accSinceDel, dropCount,
                 purgePc, purgeTodo, purgeVisited, purges, firstSrc, fwdSincePurge>>
  /\ UNCHANGED <<now, guardVars, orchVars, relayVars, srcVars, normVars, concVars>>

\* handleEvent: ExtractText refuses the next message, `continue`.
HandleEventSkip ==
  /\ whReq.pc = "serve"
  /\ whReq.at < Len(whReq.body.msgs)
  /\ ~whReq.body.msgs[whReq.at + 1]
  /\ whReq' = [whReq EXCEPT !.at = @ + 1]
  /\ UNCHANGED <<appSecret, whResp, whPosts, gwcVars, roleVars, splitVars, lateVars>>
  /\ UNCHANGED <<mergeVars, now, guardVars, orchVars, relayVars, srcVars, normVars, concVars>>

\* handleEvent returns after the last message: the 200 response goes out.
HandleEventReturn ==
  /\ whReq.pc = "serve"
  /\ whReq.at = Len(whReq.body.msgs)
  /\ whResp' = [status |-> StatusOK, hdr |-> whReq.hdr, body |-> whReq.body,
                nOut |-> whReq.nOut]
  /\ whReq' = IdleReq
  /\ UNCHANGED <<appSecret, whPosts, gwcVars, roleVars, splitVars, lateVars>>
  /\ UNCHANGED <<mergeVars, now, guardVars, orchVars, relayVars, srcVars, normVars, concVars>>

NextWebhook ==
  \/ \E body \in Bodies : \E header \in Headers(body) : HandleEventStart(header, body)
  \/ HandleEventEmit
  \/ HandleEventSkip
  \/ HandleEventReturn
  \/ MergeRecv
  \/ MergeForward
  \/ Drain

(***************************************************************************)
(* Gateway session: gateway.Client (Connect, Send, Close)                  *)
(***************************************************************************)
MaxGwCalls == 4    \* Connect, Send and Close calls in one run

\* How a Connect call ends: the step that fails, or "ok".
ConnectOutcomes ==
  {"dial", "challenge", "marshal", "write", "response", "parse", "rejected", "ok"}

InitGateway ==
  /\ gwConn = "nil"
  /\ gwSeq = 0
  /\ gwCalls = <<>>

\* Client.Connect: c.conn when Connect returns. A failed dial returns before
\* c.conn is assigned; every later failure closes the connection and sets
\* c.conn = nil.
ConnLeftDialed(outcome, c) == IF outcome = "dial" THEN c ELSE "open"
ConnAfterConnect(outcome, c) ==
  IF outcome = "ok" THEN "open"
  ELSE IF outcome = "dial" THEN c
  ELSE "nil"

\* Client.Connect: c.seq when Connect returns (nextID runs once the
\* challenge has been read).
SeqAfterConnect(outcome, n) == IF outcome \in {"dial", "challenge"} THEN n ELSE n + 1

\* Client.Connect, under c.mu from entry to return.
Connect(outcome) ==
  /\ Len(gwCalls) < MaxGwCalls
  /\ gwConn' = ConnAfterConnect(outcome, gwConn)
  /\ gwSeq' = SeqAfterConnect(outcome, gwSeq)
  /\ gwCalls' = Append(gwCalls, [op |-> "Connect", step |-> outcome,
                                 res |-> IF outcome = "ok" THEN "ok" ELSE "error",
                                 frame |-> FALSE, before |-> gwConn,
                                 after |-> ConnAfterConnect(outcome, gwConn)])
  /\ UNCHANGED <<whVars, roleVars, splitVars, lateVars>>
  /\ UNCHANGED <<mergeVars, now, guardVars, orchVars, relayVars, srcVars, normVars, concVars>>

\* Client.Send: the chat.send frame is written iff c.conn is a live
\* connection and WriteMessage succeeds (writeOk); WriteMessage on a
\* connection that was closed fails.
SendWrites(c, writeOk) == c = "open" /\ writeOk

\* Client.Send, under c.mu from entry to return.
Send(writeOk) ==
  /\ Len(gwCalls) < MaxGwCalls
  /\ gwSeq' = IF gwConn = "nil" THEN gwSeq ELSE gwSeq + 1
  /\ gwCalls' = Append(gwCalls, [op |-> "Send",
                                 step |-> IF gwConn = "nil" THEN "nil" ELSE "write",
                                 res |-> IF SendWrites(gwConn, writeOk) THEN "ok" ELSE "error",
                                 frame |-> SendWrites(gwConn, writeOk),
                                 before |-> gwConn, after |-> gwConn])
  /\ UNCHANGED <<gwConn, whVars, roleVars, splitVars, lateVars>>
  /\ UNCHANGED <<mergeVars, now, guardVars, orchVars, relayVars, srcVars, normVars, concVars>>

\* Client.Close: what `c.conn.Close()` returns. Closing a live connection
\* succeeds or fails with the network (closeOk); closing a connection that is
\* already closed returns an error.
CloseResult(c, closeOk) ==
  IF c = "nil" THEN "ok"
  ELSE IF c = "open" /\ closeOk THEN "ok"
  ELSE "error"

\* Client.Close: c.conn is closed when non-nil and stays assigned.
ConnAfterClose(c) == IF c = "nil" THEN "nil" ELSE "closed"

\* Client.Close, under c.mu from entry to return.
Close(closeOk) ==
  /\ Len(gwCalls) < MaxGwCalls
  /\ gwConn' = ConnAfterClose(gwConn)
  /\ gwCalls' = Append(gwCalls, [op |-> "Close",
                                 step |-> IF gwConn = "nil" THEN "nil" ELSE "close",
                                 res |-> CloseResult(gwConn, closeOk),
                                 frame |-> FALSE, before |-> gwConn,
                                 after |-> ConnAfterClose(gwConn)])
  /\ UNCHANGED <<gwSeq, whVars, roleVars, splitVars, lateVars>>
  /\ UNCHANGED <<mergeVars, now, guardVars, orchVars, relayVars, srcVars, normVars, concVars>>

NextGateway ==
  \/ \E outcome \in ConnectOutcomes : Connect(outcome)
  \/ \E writeOk \in BOOLEAN : Send(writeOk)
  \/ \E closeOk \in BOOLEAN : Close(closeOk)

(***************************************************************************)
(* Roles: config.Load (TOML, then applyEnv) and security.New               *)
(***************************************************************************)
MaxListed == 1     \* phone strings listed under one role, and in the environment
MaxStarts == 2     \* starts of the bridge on one configuration

RoleNames == {"admin", "member"}

\* config.defaults: security.default_role.
DefaultRole == "member"

\* The phone strings of the configuration: two spellings of one number and
\* another number.
ListedPhones == {<<"+", "1">>, <<"+", "1", "-">>, <<"2">>}
PhoneLists == UNION { [1..n -> ListedPhones] : n \in 0..MaxListed }

\* phoneInRoles: the string is listed under some role, compared as written.
phoneInRoles(r, phone) ==
  \E role \in DOMAIN r : \E k \in 1..Len(r[role]) : r[role][k] = phone

\* applyEnv, KAPSO_ALLOWED_NUMBERS: the roles after the numbers nums[k..].
RECURSIVE applyEnv(_, _, _)
applyEnv(r, nums, k) ==
  IF k > Len(nums) THEN r
  ELSE IF phoneInRoles(r, nums[k]) THEN applyEnv(r, nums, k + 1)
  ELSE applyEnv([r EXCEPT ![DefaultRole] = Append(@, nums[k])], nums, k + 1)

\* The orders in which `range cfg.Roles` may visit the roles: Go does not
\* fix the iteration order of a map.
RangeOrders ==
  { o \in [1..Cardinality(RoleNames) -> RoleNames] :
      \A a, b \in 1..Len(o) : a # b => o[a] # o[b] }

NoRole == ""

\* security.New: phoneTo after the phones list[k..] of `role`.
RECURSIVE addPhones(_, _, _, _)
addPhones(pt, role, list, k) ==
  IF k > Len(list) THEN pt
  ELSE LET n == normalize(list[k])
       IN addPhones(IF pt[n] = NoRole THEN [pt EXCEPT ![n] = role] ELSE pt, role, list, k + 1)

\* security.New: phoneTo after the roles order[k..].
RECURSIVE addRoles(_, _, _, _)
addRoles(pt, r, order, k) ==
  IF k > Len(order) THEN pt
  ELSE addRoles(addPhones(pt, order[k], r[order[k]], 1), r, order, k + 1)

NormPhones == { normalize(p) : p \in ListedPhones }

\* security.New: the phone -> role lookup, NoRole for a phone without entry.
NewPhoneTo(r, order) == addRoles([n \in NormPhones |-> NoRole], r, order, 1)

\* Guard.Role.
Role(pt, from) ==
  IF normalize(from) \in DOMAIN pt /\ pt[normalize(from)] # NoRole
    THEN pt[normalize(from)] ELSE DefaultRole

InitRoles ==
  /\ cfgRoles = [r \in RoleNames |-> <<>>]
  /\ tomlRoles = [r \in RoleNames |-> <<>>]
  /\ envNumbers = <<>>
  /\ rolesPc = "load"
  /\ guardPhoneTo = [n \in NormPhones |-> NoRole]
  /\ starts = <<>>

\* config.Load: the TOML file's [security.roles], then applyEnv.
LoadConfig(toml, env) ==
  /\ rolesPc = "load"
  /\ rolesPc' = "loaded"
  /\ tomlRoles' = toml
  /\ envNumbers' = env
  /\ cfgRoles' = applyEnv(toml, env, 1)
  /\ UNCHANGED <<guardPhoneTo, starts, whVars, gwcVars, splitVars, lateVars>>
  /\ UNCHANGED <<mergeVars, now, guardVars, orchVars, relayVars, srcVars, normVars, concVars>>

\* A start of the bridge: security.New(cfg.Security).
NewGuard(order) ==
  /\ rolesPc = "loaded"
  /\ Len(starts) < MaxStarts
  /\ guardPhoneTo' = NewPhoneTo(cfgRoles, order)
  /\ starts' = Append(starts, NewPhoneTo(cfgRoles, order))
  /\ UNCHANGED <<cfgRoles, tomlRoles, envNumbers, rolesPc, whVars, gwcVars, splitVars, lateVars>>
  /\ UNCHANGED <<mergeVars, now, guardVars, orchVars, relayVars, srcVars, normVars, concVars>>

NextRoles ==
  \/ \E toml \in [RoleNames -> PhoneLists], env \in PhoneLists : LoadConfig(toml, env)
  \/ \E order \in RangeOrders : NewGuard(order)

(***************************************************************************)
(* splitMessage(text, maxLen), one loop iteration per step                 *)
(***************************************************************************)
MaxTextLen == 7    \* length of the texts given to splitMessage
FunnelGrace == 2   \* cleanupFunnel's 5 s grace, in clock ticks
MaxChunks == 2     \* chunks of one reply
MaxSplitLen == 4   \* the largest maxLen given to splitMessage
MinSplitLen == 4   \* the smallest maxLen given to splitMessage

\* The bytes of the texts: a letter, the space, the newline and two
\* sentence marks.
SplitChars == {"a", " ", "\n", ".", "?"}
Texts == UNION { [1..n -> SplitChars] : n \in 0..MaxTextLen }

\* unicode.IsSpace on the bytes of the texts.
IsSpace(c) == c \in {" ", "\n"}

\* strings.TrimSpace.
TrimSpace(s) ==
  LET keep == { i \in 1..Len(s) : ~IsSpace(s[i]) }
  IN IF keep = {} THEN <<>>
     ELSE SubSeq(s, CHOOSE i \in keep : \A j \in keep : i <= j,
                    CHOOSE i \in keep : \A j \in keep : i >= j)

\* strings.LastIndex(s, sep): the 0-based index of the last occurrence, or -1.
LastIndex(s, sep) ==
  LET at == { i \in 0..(Len(s) - Len(sep)) : SubSeq(s, i + 1, i + Len(sep)) = sep }
  IN IF at = {} THEN -1 ELSE CHOOSE i \in at : \A j \in at : i >= j

\* splitMessage: splitPos after the loop over the sentence separators.
SentenceSeps == {<<".", " ">>, <<"?", " ">>, <<"!", " ">>}
SentencePos(chunk, minSplit) ==
  LET pos == { LastIndex(chunk, sep) + 1 : sep \in { q \in SentenceSeps : LastIndex(chunk, q) >= minSplit } }
  IN IF pos = {} THEN -1 ELSE CHOOSE p \in pos : \A q \in pos : p >= q

\* splitMessage: the index at which one loop iteration cuts `t`: the last
\* paragraph break, else the last newline, else the end of the last
\* sentence, else the last space, each at or after maxLen/4, else maxLen.
CutPastMax(t, m) == m + 1
CutAt(t, m) ==
  LET chunk == SubSeq(t, 1, m)
      minSplit == m \div 4
  IN IF LastIndex(chunk, <<"\n", "\n">>) >= minSplit THEN LastIndex(chunk, <<"\n", "\n">>)
     ELSE IF LastIndex(chunk, <<"\n">>) >= minSplit THEN LastIndex(chunk, <<"\n">>)
     ELSE IF SentencePos(chunk, minSplit) >= 0 THEN SentencePos(chunk, minSplit)
     ELSE IF LastIndex(chunk, <<" ">>) >= minSplit THEN LastIndex(chunk, <<" ">>)
     ELSE m

InitSplitIdle ==
  /\ splitIn = <<>>
  /\ maxLen = MinSplitLen
  /\ splitText = <<>>
  /\ splitChunks = <<>>
  /\ splitPc = "done"

InitSplit ==
  /\ splitIn \in Texts
  /\ maxLen \in MinSplitLen..MaxSplitLen
  /\ splitText = splitIn
  /\ splitChunks = <<>>
  /\ splitPc = "entry"

\* splitMessage: a text that fits is returned as the only chunk.
SplitEntry ==
  /\ splitPc = "entry"
  /\ IF Len(splitText) <= maxLen
       THEN splitChunks' = <<splitText>> /\ splitPc' = "done"
       ELSE splitChunks' = <<>> /\ splitPc' = "loop"
  /\ UNCHANGED <<splitIn, maxLen, splitText, whVars, gwcVars, roleVars, lateVars>>
  /\ UNCHANGED <<mergeVars, now, guardVars, orchVars, relayVars, srcVars, normVars, concVars>>

\* splitMessage: one iteration of `for len(text) > maxLen`.
SplitStep ==
  /\ splitPc = "loop"
  /\ Len(splitText) > maxLen
  /\ splitChunks' = Append(splitChunks, TrimSpace(SubSeq(splitText, 1, CutAt(splitText, maxLen))))
  /\ splitText' = TrimSpace(SubSeq(splitText, CutAt(splitText, maxLen) + 1, Len(splitText)))
  /\ UNCHANGED <<splitIn, maxLen, splitPc, whVars, gwcVars, roleVars, lateVars>>
  /\ UNCHANGED <<mergeVars, now, guardVars, orchVars, relayVars, srcVars, normVars, concVars>>

\* splitMessage after the loop: what is left becomes the last chunk.
SplitRest ==
  /\ splitPc = "loop"
  /\ Len(splitText) <= maxLen
  /\ splitChunks' = IF splitText # <<>> THEN Append(splitChunks, TrimSpace(splitText))
                                       ELSE splitChunks
  /\ splitPc' = "done"
  /\ UNCHANGED <<splitIn, maxLen, splitText, whVars, gwcVars, roleVars, lateVars>>
  /\ UNCHANGED <<mergeVars, now, guardVars, orchVars, relayVars, srcVars, normVars, concVars>>

NextSplit ==
  \/ SplitEntry
  \/ SplitStep
  \/ SplitRest

(***************************************************************************)
(* Shutdown: main after the signal, cleanupFunnel, and the tasks that      *)
(* observe the root context                                                *)
(***************************************************************************)
DeliveryModes == {"polling", "tailscale", "domain"}

shutRest == <<mergeVars, now, guardVars, orchVars, srcVars, normVars, concVars,
              whVars, gwcVars, roleVars, splitVars, chunkVars>>
relayData == <<tasks, sessions, transcripts, claimed, grants, waSent>>

\* main up to `sig := <-stop`: the sources of the delivery mode are running,
\* the funnel child exists in tailscale mode only, Merge.Run, StartCleanup and
\* the consume loop are running.  Poller.Run begins with a poll.
InitShutdown ==
  /\ mainPc = "wait"
  /\ \E dm \in DeliveryModes, pollFallback \in BOOLEAN :
       /\ funnelProc = IF dm = "tailscale" THEN "running" ELSE "none"
       /\ runPc = [s \in Sources |->
                     IF s = "poller"
                       THEN IF dm = "polling" \/ pollFallback THEN "poll" ELSE "off"
                       ELSE IF dm = "polling" THEN "off" ELSE "serve"]
  /\ termAt = NoTime
  /\ killAt = NoTime
  /\ exitAt = NoTime
  /\ inHandler = FALSE
  /\ chClosed = FALSE
  /\ outCloses = 0
  /\ mergePc = "loop"
  /\ cleanPc = "run"
  /\ rangePc = "run"
  /\ lateSends = 0
  /\ shutLog = <<>>

\* The process is alive until main has returned.
Alive == mainPc # "exited"

\* `sig := <-stop; cancel()`.
MainCancel ==
  /\ mainPc = "wait"
  /\ ctxDone' = TRUE
  /\ mainPc' = "cleanup"
  /\ shutLog' = Append(shutLog, "cancel")
  /\ UNCHANGED <<funnelProc, termAt, killAt, exitAt, runPc, inHandler, chClosed,
                 outCloses, mergePc, cleanPc, rangePc, lateSends>>
  /\ UNCHANGED <<relayData, shutRest>>

\* cleanupFunnel: return at once without a child, else proc.Signal(SIGTERM)
\* and wait in the select.
MainTerminate ==
  /\ mainPc = "cleanup"
  /\ IF funnelProc = "none"
       THEN /\ mainPc' = "return"
            /\ UNCHANGED <<termAt, shutLog>>
       ELSE /\ mainPc' = "select"
            /\ termAt' = now
            /\ shutLog' = Append(shutLog, "term")
  /\ UNCHANGED <<funnelProc, killAt, exitAt, runPc, inHandler, chClosed,
                 outCloses, mergePc, cleanPc, rangePc, lateSends>>
  /\ UNCHANGED <<relayVars, shutRest>>

\* The child exits by itself, at any time; after SIGTERM this is its graceful
\* exit.  proc.Wait returns and `done` is closed.
ChildExits ==
  /\ funnelProc = "running"
  /\ funnelProc' = "exited"
  /\ exitAt' = now
  /\ UNCHANGED <<mainPc, termAt, killAt, runPc, inHandler, chClosed,
                 outCloses, mergePc, cleanPc, rangePc, lateSends, shutLog>>
  /\ UNCHANGED <<relayVars, shutRest>>

\* `case <-done:` of cleanupFunnel's select.
MainDone ==
  /\ mainPc = "select"
  /\ funnelProc = "exited"
  /\ mainPc' = "return"
  /\ UNCHANGED <<funnelProc, termAt, killAt, exitAt, runPc, inHandler, chClosed,
                 outCloses, mergePc, cleanPc, rangePc, lateSends, shutLog>>
  /\ UNCHANGED <<relayVars, shutRest>>

\* time.After(5 * time.Second) has fired at time t when armed at t0.
TimerFiredAtOnce(t0, t) == t >= t0
TimerFired(t0, t) == t >= t0 + FunnelGrace

\* `case <-time.After(5 * time.Second): proc.Kill()`.  When `done` is closed
\* too, select takes either case.
MainKill ==
  /\ mainPc = "select"
  /\ TimerFired(termAt, now)
  /\ funnelProc' = IF funnelProc = "running" THEN "killed" ELSE funnelProc
  /\ killAt' = now
  /\ mainPc' = "return"
  /\ shutLog' = Append(shutLog, "kill")
  /\ UNCHANGED <<termAt, exitAt, runPc, inHandler, chClosed,
                 outCloses, mergePc, cleanPc, rangePc, lateSends>>
  /\ UNCHANGED <<relayVars, shutRest>>

\* main returns: the deferred cancel and the deferred gw.Close run, and the
\* process exits with whatever its goroutines were doing.
MainReturn ==
  /\ mainPc = "return"
  /\ mainPc' = "exited"
  /\ shutLog' = Append(shutLog, "close")
  /\ UNCHANGED <<funnelProc, termAt, killAt, exitAt, runPc, inHandler, chClosed,
                 outCloses, mergePc, cleanPc, rangePc, lateSends>>
  /\ UNCHANGED <<relayVars, shutRest>>

\* The clock while main waits in the select for a child that is still
\* running: main takes `done` as soon as it is closed.
GraceTick ==
  /\ mainPc = "select"
  /\ funnelProc = "running"
  /\ ~TimerFired(termAt, now)
  /\ Tick(MaxTime)

SetRun(s, pc) ==
  /\ runPc' = [runPc EXCEPT ![s] = pc]
  /\ UNCHANGED <<mainPc, funnelProc, termAt, killAt, exitAt, inHandler, chClosed,
                 outCloses, mergePc, cleanPc, rangePc, lateSends, shutLog>>
  /\ UNCHANGED <<relayVars, shutRest>>

\* Poller.Run: `case <-ticker.C: p.poll(...)`; poll does not observe ctx.
PollBegin == runPc["poller"] = "select" /\ SetRun("poller", "poll")

\* p.poll returns.
PollEnd == runPc["poller"] = "poll" /\ SetRun("poller", "select")

\* Poller.Run: `case <-ctx.Done(): return ctx.Err()`.
PollerReturn == runPc["poller"] = "select" /\ ctxDone /\ SetRun("poller", "returned")

\* Server.Run: srv.Shutdown makes srv.Serve return ErrServerClosed at once,
\* and Run returns without waiting for Shutdown or for the handlers.
ServerReturn == runPc["webhook"] = "serve" /\ ctxDone /\ SetRun("webhook", "returned")

SetHandler(b, late) ==
  /\ inHandler' = b
  /\ lateSends' = lateSends + late
  /\ UNCHANGED <<mainPc, funnelProc, termAt, killAt, exitAt, runPc, chClosed,
                 outCloses, mergePc, cleanPc, rangePc, shutLog>>
  /\ UNCHANGED <<relayVars, shutRest>>

\* The server accepts a POST /webhook and starts its handler.
HandlerBegin == runPc["webhook"] = "serve" /\ ~inHandler /\ SetHandler(TRUE, 0)

\* handleEvent returns.
HandlerEnd == inHandler /\ SetHandler(FALSE, 0)

\* handleEvent's `out <- delivery.Event{...}` on the closed channel: the send
\* panics, net/http recovers and the handler is over.
HandlerLateSend == inHandler /\ chClosed /\ SetHandler(FALSE, 1)

\* A source that is inside poll or inside a handler sends on the open ch.
EmitDuring(s, i) ==
  /\ ~chClosed
  /\ \/ s = "poller" /\ runPc[s] = "poll"
     \/ s = "webhook" /\ inHandler
  /\ SourceEmit(s, i)

\* Merge.Run's `wg.Wait(); close(ch)`: every Source's Run has returned.
CloseCh ==
  /\ ~chClosed
  /\ \A s \in Sources : runPc[s] \in {"off", "returned"}
  /\ chClosed' = TRUE
  /\ UNCHANGED <<mainPc, funnelProc, termAt, killAt, exitAt, runPc, inHandler,
                 outCloses, mergePc, cleanPc, rangePc, lateSends, shutLog>>
  /\ UNCHANGED <<relayVars, shutRest>>

\* `for evt := range ch` ends when ch is closed and drained; the event held
\* has gone to out before the loop receives again.
RangeEndsOnClose(closed, q, h) == closed
RangeEnds(closed, q, h) == closed /\ q = <<>> /\ h = NoEvent

\* Merge.Run: `close(out); return nil`.
MergeCloseOut ==
  /\ mergePc = "loop"
  /\ RangeEnds(chClosed, ch, hold)
  /\ outCloses' = outCloses + 1
  /\ mergePc' = "returned"
  /\ UNCHANGED <<mainPc, funnelProc, termAt, killAt, exitAt, runPc, inHandler, chClosed,
                 cleanPc, rangePc, lateSends, shutLog>>
  /\ UNCHANGED <<relayVars, shutRest>>

\* StartCleanup: `case <-ctx.Done(): return`.
CleanupReturn ==
  /\ cleanPc = "run"
  /\ ctxDone
  /\ cleanPc' = "returned"
  /\ UNCHANGED <<mainPc, funnelProc, termAt, killAt, exitAt, runPc, inHandler, chClosed,
                 outCloses, mergePc, rangePc, lateSends, shutLog>>
  /\ UNCHANGED <<relayVars, shutRest>>

\* main's `for evt := range events` ends when events is closed and drained.
ConsumeEnds ==
  /\ rangePc = "run"
  /\ outCloses > 0
  /\ out = <<>>
  /\ rangePc' = "ended"
  /\ UNCHANGED <<mainPc, funnelProc, termAt, killAt, exitAt, runPc, inHandler, chClosed,
                 outCloses, mergePc, cleanPc, lateSends, shutLog>>
  /\ UNCHANGED <<relayVars, shutRest>>

\* The goroutines take no step once the process has exited.
NextShutdown ==
  \/ Alive /\ \E s \in Sources : EmitDuring(s, 1)
  \/ Alive /\ PollBegin
  \/ Alive /\ PollEnd
  \/ Alive /\ PollerReturn
  \/ Alive /\ ServerReturn
  \/ Alive /\ HandlerBegin
  \/ Alive /\ HandlerEnd
  \/ Alive /\ HandlerLateSend
  \/ Alive /\ CloseCh
  \/ Alive /\ mergePc = "loop" /\ MergeRecv
  \/ Alive /\ mergePc = "loop" /\ MergeForward
  \/ Alive /\ MergeCloseOut
  \/ Alive /\ CleanupReturn
  \/ Alive /\ rangePc = "run" /\ Drain
  \/ Alive /\ ConsumeEnds
  \/ MainCancel
  \/ MainTerminate
  \/ ChildExits
  \/ MainDone
  \/ MainKill
  \/ MainReturn
  \/ GraceTick

\* The shutdown component and the chunk loops at rest.
InitShutIdle ==
  /\ mainPc = "wait" /\ funnelProc = "none" /\ termAt = NoTime /\ killAt = NoTime
  /\ exitAt = NoTime /\ runPc = [s \in Sources |-> "off"] /\ inHandler = FALSE
  /\ chClosed = FALSE /\ outCloses = 0 /\ mergePc = "loop" /\ cleanPc = "run"
  /\ rangePc = "run" /\ lateSends = 0 /\ shutLog = <<>>

(***************************************************************************)
(* The chunk loop of Relay.Send, for the relay tasks of one sender         *)
(***************************************************************************)
NoJob == [reply |-> 0, n |-> 0, next |-> 1]

\* Every relay task of the sender has claimed a reply of its own (the
\* Tracker grants a reply to one task) and split it into 1..MaxChunks chunks.
InitChunks ==
  /\ chunkJobs \in [1..MaxTasks -> [reply : 1..MaxTasks, n : 1..MaxChunks, next : {1}]]
  /\ \A t \in 1..MaxTasks : chunkJobs[t].reply = t
  /\ chunkLog = <<>>

InitChunkIdle ==
  /\ chunkJobs = [t \in 1..MaxTasks |-> NoJob]
  /\ chunkLog = <<>>

\* `for _, chunk := range chunks`: a failed SendText is logged and the loop
\* goes on with the next chunk.
RetryChunk(k, ok) == IF ok THEN k + 1 ELSE k
AfterChunk(k, ok) == k + 1

\* One iteration of the chunk loop of task t: r.Client.SendText(to, chunk).
SendChunk(t, ok) ==
  /\ chunkJobs[t].next <= chunkJobs[t].n
  /\ chunkLog' = Append(chunkLog, [task |-> t, reply |-> chunkJobs[t].reply,
                                   k |-> chunkJobs[t].next, ok |-> ok])
  /\ chunkJobs' = [chunkJobs EXCEPT ![t].next = AfterChunk(@, ok)]
  /\ UNCHANGED <<mergeVars, now, guardVars, orchVars, relayVars, srcVars, normVars, concVars>>
  /\ UNCHANGED <<whVars, gwcVars, roleVars, splitVars, shutVars>>

NextChunks == \E t \in 1..MaxTasks, ok \in BOOLEAN : SendChunk(t, ok)

InitLateIdle == InitShutIdle /\ InitChunkIdle

\* The Webhook handler, the gateway session, the roles, splitMessage, the
\* shutdown and the chunk loops at rest.
InitEdgeIdle ==
  InitWebhookIdle /\ InitGateway /\ InitRoles /\ InitSplitIdle /\ InitLateIdle

\* normalize, the concurrent callers of Check and the components above at rest.
InitIdle == InitNormIdle /\ InitCallers /\ InitEdgeIdle

InitDefault ==
  /\ InitMerge /\ now = 0 /\ InitGuardDefault /\ mode = "allowlist"
  /\ InitOrch /\ InitIdle /\ InitRelay /\ InitSourcesIdle

SpecMerge == InitDefault /\ [][NextMerge]_vars

InitGuardSpec ==
  /\ InitMerge /\ now = 0 /\ InitGuardDefault /\ InitOrch /\ InitIdle /\ InitRelay
  /\ InitSourcesIdle

SpecGuard == InitGuardSpec /\ [][NextGuard]_vars

Init ==
  /\ InitMerge /\ now = 0 /\ InitGuard /\ isolate = TRUE /\ InitOrch /\ InitIdle
  /\ InitRelay /\ InitSourcesIdle

Spec == Init /\ [][NextOrch]_vars

InitSessionSpec ==
  /\ InitMerge /\ now = 0 /\ InitGuardDefault /\ mode = "open"
  /\ InitOrch /\ InitIdle /\ InitRelay /\ InitSourcesIdle

SpecSession == InitSessionSpec /\ [][NextSession]_vars

\* The session of sender "1" is registered before the relay tasks start.
InitRelaySpec ==
  /\ InitMerge /\ now = 0 /\ InitGuardDefault /\ mode = "open"
  /\ InitOrch /\ InitIdle /\ InitSourcesIdle
  /\ tasks = <<>>
  /\ sessions = { SessionKey(BaseKey, <<"1">>) }
  /\ transcripts = [k \in SessionKeys |-> <<>>]
  /\ claimed = {}
  /\ grants = <<>>
  /\ waSent = <<>>
  /\ ctxDone = FALSE

SpecRelay == InitRelaySpec /\ [][NextRelay]_vars

InitNormSpec ==
  /\ InitMerge /\ now = 0 /\ InitGuardDefault /\ mode = "allowlist"
  /\ InitOrch /\ InitCallers /\ InitEdgeIdle /\ InitRelay /\ InitSourcesIdle /\ InitNorm

SpecNormalize == InitNormSpec /\ [][NextNorm]_vars

InitGuardConcSpec ==
  /\ InitMerge /\ now = 0 /\ InitGuardDefault /\ mode = "allowlist"
  /\ InitOrch /\ InitIdle /\ InitRelay /\ InitSourcesIdle

SpecGuardConc == InitGuardConcSpec /\ [][NextGuardConc]_vars

InitSourcesSpec ==
  /\ InitMerge /\ now = 0 /\ InitGuardDefault /\ mode = "allowlist"
  /\ InitOrch /\ InitIdle /\ InitRelay /\ InitSources

SpecSources == InitSourcesSpec /\ [][NextSources]_vars

SpecSincePoll == InitSourcesSpec /\ [][NextSincePoll]_vars

\* Everything but the Webhook handler, the gateway session, the roles and
\* splitMessage, at rest.
InitCore ==
  /\ InitMerge /\ now = 0 /\ InitGuardDefault /\ mode = "allowlist"
  /\ InitOrch /\ InitNormIdle /\ InitCallers /\ InitRelay /\ InitSourcesIdle
  /\ InitLateIdle

InitWebhookSpec == InitCore /\ InitWebhook /\ InitGateway /\ InitRoles /\ InitSplitIdle

SpecWebhook == InitWebhookSpec /\ [][NextWebhook]_vars

InitGatewaySpec == InitCore /\ InitWebhookIdle /\ InitGateway /\ InitRoles /\ InitSplitIdle

SpecGateway == InitGatewaySpec /\ [][NextGateway]_vars

InitRolesSpec == InitCore /\ InitWebhookIdle /\ InitGateway /\ InitRoles /\ InitSplitIdle

SpecRoles == InitRolesSpec /\ [][NextRoles]_vars

InitSplitSpec == InitCore /\ InitWebhookIdle /\ InitGateway /\ InitRoles /\ InitSplit

SpecSplit == InitSplitSpec /\ [][NextSplit]_vars

SpecFirstPoll == InitSourcesSpec /\ [][NextFirstPoll]_vars

\* The ids of the events emitted so far (nothing is purged in this
\* specification): a source emits a message under the next unused id, or
\* emits again a message that was emitted before.
EmittedIds == seen \cup { ch[n].id : n \in 1..Len(ch) }

\* Sources, Merge.Run and the consume loop running together.
NextPipeline ==
  \/ \E s \in Sources, i \in Ids : i <= Cardinality(EmittedIds) + 1 /\ SourceEmit(s, i)
  \/ MergeRecv
  \/ MergeForward
  \/ ConsumeCheck
  \/ \E ok \in BOOLEAN : ConsumeGwSend(ok)
  \/ ConsumeSpawn
  \/ Tick(MaxTime)

SpecPipeline == Init /\ [][NextPipeline]_vars

\* Merge.Run and the consume loop are goroutines the scheduler runs whenever
\* they can take a step, and gw.Send returns.
FairPipeline ==
  /\ WF_vars(MergeRecv) /\ WF_vars(MergeForward) /\ WF_vars(ConsumeCheck)
  /\ WF_vars(\E ok \in BOOLEAN : ConsumeGwSend(ok)) /\ WF_vars(ConsumeSpawn)

SpecPipelineLive == Init /\ [][NextPipeline]_vars /\ FairPipeline

InitQuiet ==
  /\ InitMerge /\ now = 0 /\ InitGuardDefault /\ mode = "allowlist"
  /\ InitOrch /\ InitNormIdle /\ InitCallers /\ InitRelay /\ InitSourcesIdle
  /\ InitWebhookIdle /\ InitGateway /\ InitRoles /\ InitSplitIdle

InitShutdownSpec == InitQuiet /\ InitShutdown /\ InitChunkIdle

SpecShutdown == InitShutdownSpec /\ [][NextShutdown]_vars

\* The scheduler runs every goroutine that can take a step, the clock
\* advances, and a select whose ctx.Done case stays ready cannot take the
\* ticker case forever.  Neither the signal nor the child's exit is promised.
FairShutdown ==
  /\ WF_vars(MainTerminate) /\ WF_vars(MainDone) /\ WF_vars(MainKill)
  /\ WF_vars(MainReturn) /\ WF_vars(GraceTick)
  /\ WF_vars(Alive /\ PollEnd) /\ SF_vars(Alive /\ PollerReturn)
  /\ WF_vars(Alive /\ ServerReturn) /\ WF_vars(Alive /\ HandlerEnd)
  /\ WF_vars(Alive /\ CloseCh) /\ WF_vars(Alive /\ MergeRecv)
  /\ WF_vars(Alive /\ MergeForward) /\ WF_vars(Alive /\ MergeCloseOut)
  /\ WF_vars(Alive /\ CleanupReturn) /\ WF_vars(Alive /\ rangePc = "run" /\ Drain)
  /\ WF_vars(Alive /\ ConsumeEnds)

SpecShutdownLive == InitShutdownSpec /\ [][NextShutdown]_vars /\ FairShutdown

InitChunksSpec == InitQuiet /\ InitShutIdle /\ InitChunks

SpecChunks == InitChunksSpec /\ [][NextChunks]_vars

(***************************************************************************)
(* Claims about Merge                                                      *)
(***************************************************************************)


\* C3 helper: the number of Allow verdicts for key k at times a..b.
AllowsIn(k, a, b) ==
  Cardinality({ j \in 1..Len(checkLog) :
                  /\ checkLog[j].key = k
                  /\ checkLog[j].verdict = "Allow"
                  /\ a <= checkLog[j].t /\ checkLog[j].t <= b })

\* C1 (as stated): over the whole run, cleanups included, Merge forwards
\* every event id to out at most once.
C1_AtMostOnceEver == \A i \in Ids : fwdCount[i] <= 1

\* C1 (amended): as long as no SeenSet cleanup has run, Merge forwards every
\* event id at most once; and an id is let through again only after a cleanup
\* has deleted it from the SeenSet (since its last deletion, or since
\* start-up, at most one event with that id has passed the SeenSet check).
C1_AtMostOncePerDeletion ==
  \A i \in Ids :
    /\ accSinceDel[i] <= 1
    /\ (purges = 0 => fwdCount[i] <= 1)

\* C1 witness: an id arrived twice with no cleanup in between; one event was
\* forwarded and the other dropped as a duplicate.
C1_Witness ==
  \E i \in Ids : fwdCount[i] = 1 /\ dropCount[i] = 1 /\ purges = 0

(***************************************************************************)
(* Claims about the Guard                                                  *)
(***************************************************************************)

Forwarding(h) ==
  \/ consPc \in {"send", "spawn"} /\ cur.h = h
  \/ \E j \in 1..Len(gwFrames) : gwFrames[j].h = h
  \/ \E j \in 1..Len(tasks) : tasks[j].h = h

\* C4: for an event whose verdict is Deny or RateLimited the orchestrator
\* makes no gateway.send call and starts no relay task.
C4_NoForwardOnRefusal ==
  \A h \in 1..Len(handled) :
    handled[h].verdict \in {"Deny", "RateLimited"} => ~Forwarding(h)

\* C4 witness: one event was denied, and a later event was allowed, sent to
\* the gateway and given a relay task.
C4_Witness ==
  \E h, g \in 1..Len(handled) :
    /\ h < g
    /\ handled[h].verdict = "Deny"
    /\ handled[g].verdict = "Allow"
    /\ \E j \in 1..Len(tasks) : tasks[j].h = g

\* C10: for an event whose verdict is RateLimited the bridge sends the sender
\* nothing: no deny message, and no relay task that could send a reply.
C10_SilentOnRateLimit ==
  \A h \in 1..Len(handled) :
    handled[h].verdict = "RateLimited" =>
      /\ \A m \in orchSends : m.h # h
      /\ \A j \in 1..Len(tasks) : tasks[j].h # h
      /\ ~(consPc \in {"send", "spawn"} /\ cur.h = h)

\* C10 witness: with a deny message configured, a sender was rate limited
\* after its earlier events had been forwarded.
C10_Witness ==
  /\ denyMessage # ""
  /\ \E h \in 1..Len(handled) :
       /\ handled[h].verdict = "RateLimited"
       /\ \E g \in 1..(h - 1) : handled[g].from = handled[h].from /\ Forwarding(g)

(***************************************************************************)
(* Claims about the relay                                                  *)
(***************************************************************************)

\* The number of replies relay task t has passed to Client.SendText.
SentBy(t) == Cardinality({ i \in 1..Len(waSent) : waSent[i].task = t })

\* The successful claims of tasks other than t.
GrantsOfOthers(t) == { g \in 1..Len(grants) : grants[g].task # t }

\* C2: Tracker.Claim grants each claim key (transcript path, line index) to
\* at most one caller, so no completed assistant turn is sent by two relay
\* tasks.
C2_ClaimOnce ==
  /\ \A i, j \in 1..Len(grants) : i # j => grants[i].key # grants[j].key
  /\ \A i, j \in 1..Len(waSent) :
       i # j => <<waSent[i].file, waSent[i].line>> # <<waSent[j].file, waSent[j].line>>

\* C2 witness: a task went through a reply list in which every key had been
\* granted to another task, so Claim refused it.
C2_Witness ==
  \E t \in 1..Len(tasks) : tasks[t].missed >= 1 /\ GrantsOfOthers(t) # {} /\ Len(waSent) >= 1

\* C6: with session isolation on, a relay task sends its sender only turns
\* taken from the transcript registered for that sender's own session key.
C6_OwnTranscriptOnly ==
  isolate =>
    \A i \in 1..Len(waSent) :
      waSent[i].file = SessionKey(BaseKey, tasks[waSent[i].task].from)

\* C7 (as stated): a relay task sends at most one turn, and it sends exactly
\* one when one of its ticks before the deadline read an unclaimed completed
\* assistant turn with text and timestamp >= T: such a task does not run into
\* its deadline with nothing sent.
C7_ExactlyOneReply ==
  \A t \in 1..Len(tasks) :
    /\ SentBy(t) <= 1
    /\ (tasks[t].saw /\ tasks[t].pc = "timeout") => SentBy(t) = 1

\* C7 (amended): a relay task sends at most one turn, always a completed
\* assistant turn with timestamp >= T that carries text; it sends exactly one
\* once its claim loop has reached such a turn that nobody had claimed at
\* that moment, and none before that.
C7_OneClaimedReply ==
  /\ \A t \in 1..Len(tasks) :
       /\ SentBy(t) <= 1
       /\ tasks[t].reached => tasks[t].pc \in {"send", "done"}
       /\ tasks[t].pc = "done" => SentBy(t) = 1
       /\ SentBy(t) = 1 => tasks[t].reached
  /\ \A i \in 1..Len(waSent) :
       LET l == transcripts[waSent[i].file][waSent[i].line] IN
         l.kind = "turn" /\ l.ts >= tasks[waSent[i].task].since

\* C7 witness: a task passed over an earlier line of the transcript (older
\* than T, without text, or claimed) and sent a later turn.
C7_Witness ==
  \E i \in 1..Len(waSent) :
    /\ waSent[i].line >= 2
    /\ tasks[waSent[i].task].pc = "done"
    /\ transcripts[waSent[i].file][1].ts < tasks[waSent[i].task].since

\* C8: concurrent relay tasks scanning one transcript in file order each claim
\* one turn and the claimed turns are pairwise distinct; a task is left
\* without a reply only when every reply of its list is held by another task,
\* which needs a list shorter than the number of tasks.
C8_DistinctTurns ==
  /\ \A i, j \in 1..Len(grants) :
       i # j => grants[i].key # grants[j].key /\ grants[i].task # grants[j].task
  /\ \A t \in 1..Len(tasks) : tasks[t].missed <= Cardinality(GrantsOfOthers(t))

\* C8 witness: two tasks for which both turns of one transcript were eligible
\* claimed the first and the second turn.
C8_Witness ==
  /\ Len(grants) = 2
  /\ grants[1].task # grants[2].task
  /\ grants[1].key[1] = grants[2].key[1]
  /\ grants[1].key[2] = 1 /\ grants[2].key[2] = 2
  /\ \A g \in 1..2, n \in 1..2 :
       IsReply(transcripts[grants[1].key[1]][n], tasks[grants[g].task].since)

(***************************************************************************)
(* Claims about the sources                                                *)
(***************************************************************************)

\* C5: the DeliveryCursor never regresses: over every step of the Poller the
\* cursor in memory and the value in the state file do not decrease.
C5_CursorNeverRegresses ==
  [][ /\ (pollerPc = "run" => lastPoll' >= lastPoll)
      /\ (stateFile # NoTime => stateFile' >= stateFile) ]_vars

\* C9: a message of an unsupported type is never emitted as an Event and
\* causes at most one notification over the whole run, all polls and all
\* delivery sources counted.
C9_OneNotification ==
  \A m \in inbox :
    Notifies(m) => emitted[m.id] = 0 /\ notified[m.id] <= 1

(***************************************************************************)
(* Claims about the Guard's verdicts and phone normalization               *)
(***************************************************************************)

\* The decimal digits of a string, in order.
OnlyDigits(phone) == SelectSeq(phone, LAMBDA ch1 : ch1 \in Digits)

\* The Check call that created or reset the bucket in which call j was served.
WindowStart(j) ==
  CHOOSE i \in 1..j :
    /\ checkLog[i].key = checkLog[j].key
    /\ checkLog[i].reset
    /\ \A k \in (i + 1)..j : checkLog[k].key = checkLog[j].key => ~checkLog[k].reset

\* The calls for call j's sender from the start of its window up to call j.
CallsInWindow(j) ==
  { k \in WindowStart(j)..j : checkLog[k].key = checkLog[j].key /\ checkLog[k].verdict # "Deny" }

\* C11: in allowlist mode Check returns Deny exactly when the normalized
\* sender is not in the RoleMap; in open mode Check never returns Deny.
C11_DenyIffNotListed ==
  \A j \in 1..Len(checkLog) :
    checkLog[j].verdict = "Deny" <=> (mode = "allowlist" /\ checkLog[j].key \notin phoneTo)

\* C11 witness: in allowlist mode one sender was denied and a listed one served.
C11_Witness ==
  /\ mode = "allowlist"
  /\ \E i, j \in 1..Len(checkLog) :
       /\ checkLog[i].verdict = "Deny" /\ checkLog[i].key \notin phoneTo
       /\ checkLog[j].verdict = "Allow" /\ checkLog[j].key \in phoneTo

\* C12: two `from` values for the same number that differ only by a leading +
\* or by formatting characters get the same allowlist verdict, share one
\* RateBucket and yield the same session key (checkLog[i].key is the bucket
\* key normalize gave the i-th call, with the digits of its `from`).
C12_OneCanonicalForm ==
  /\ \A i, j \in 1..Len(checkLog) :
       OnlyDigits(checkLog[i].key) = OnlyDigits(checkLog[j].key) =>
         /\ checkLog[i].key = checkLog[j].key
         /\ (checkLog[i].verdict = "Deny") <=> (checkLog[j].verdict = "Deny")
  /\ \A f, g \in Froms :
       OnlyDigits(f) = OnlyDigits(g) => SessionKey(BaseKey, f) = SessionKey(BaseKey, g)

\* C13: normalize returns exactly the decimal digits of its input, in order.
C13_DigitsOnly ==
  normCalls = 1 => phoneOut = OnlyDigits(phoneIn)

\* C14: normalization is idempotent: normalize(normalize(x)) = normalize(x).
C14_Idempotent ==
  normCalls = 2 => phoneOut = normalize(phoneIn)

\* C14 witness: a string with a leading +, a formatting character and a
\* digit went through normalize twice and came out changed.
C14_Witness ==
  /\ normCalls = 2
  /\ Len(phoneIn) = MaxPhoneLen
  /\ phoneIn[1] = "+"
  /\ \E i \in 2..Len(phoneIn) : phoneIn[i] \notin Digits
  /\ phoneOut # phoneIn
  /\ Len(phoneOut) >= 2

\* C15: within one window of a sender's RateBucket the first rate_limit Check
\* calls return Allow and every further call returns RateLimited, whatever
\* the interleaving of concurrent Check calls; a call served in a window was
\* made no later than its window_end.
C15_QuotaPerWindow ==
  \A j \in 1..Len(checkLog) :
    checkLog[j].verdict # "Deny" =>
      /\ checkLog[j].verdict =
           IF Cardinality(CallsInWindow(j)) <= RateLimit THEN "Allow" ELSE "RateLimited"
      /\ checkLog[j].t <= checkLog[WindowStart(j)].t + RateWindow

\* C15 witness: the sender's quota is used up, one caller holds the mutex and
\* is about to be refused, and a second caller waits for the mutex.
C15_Witness ==
  \E c, d \in Callers :
    /\ c # d
    /\ mu = c
    /\ callers[c].pc = "write"
    /\ ~WindowExpired(callers[c].b, callers[c].t) /\ Exhausted(callers[c].b)
    /\ callers[d].pc = "lock"
    /\ callers[d].n = callers[c].n

\* C16: a Check that arrives when now >= window_end of the sender's bucket,
\* the boundary now = window_end included, resets the bucket and returns
\* Allow.
C16_ResetAtWindowEnd ==
  \A j \in 2..Len(checkLog) :
    (/\ checkLog[j].verdict # "Deny"
     /\ \E i \in 1..(j - 1) :
          /\ checkLog[i].key = checkLog[j].key
          /\ checkLog[i].reset
          /\ \A k \in (i + 1)..(j - 1) : checkLog[k].key = checkLog[j].key => ~checkLog[k].reset
          /\ checkLog[j].t >= checkLog[i].t + RateWindow)
    => (checkLog[j].reset /\ checkLog[j].verdict = "Allow")

(***************************************************************************)
(* Claims about deduplication and the SeenSet purge                        *)
(***************************************************************************)

\* 1 when Merge holds an event with id i between LoadOrStore and the send.
Held(i) == IF hold.id = i THEN 1 ELSE 0

\* C17: when no SeenSet purge occurs, the ids forwarded to `out` are exactly
\* the distinct ids received, each forwarded once (an id received is forwarded
\* or is the event Merge is about to send), and the event forwarded for an id
\* is the one that arrived first.
C17_DedupFirstWins ==
  purges = 0 =>
    /\ \A i \in Ids :
         /\ fwdCount[i] + Held(i) = (IF firstSrc[i] = "none" THEN 0 ELSE 1)
         /\ Held(i) = 1 => hold.src = firstSrc[i]
    /\ \A n \in 1..Len(out) : out[n].src = firstSrc[out[n].id]

\* C17 witness: an id came from the webhook first and again afterwards; the
\* webhook's event is on `out` and the later one was dropped.
C17_Witness ==
  /\ purges = 0
  /\ \E i \in Ids :
       /\ firstSrc[i] = "webhook"
       /\ dropCount[i] >= 1
       /\ fwdCount[i] = 1
       /\ Len(out) = 1 /\ out[1].id = i /\ out[1].src = "webhook"

\* C18 (as stated): between two consecutive purges, and before the first,
\* Merge forwards each event id at most once.
C18_OncePerPurgeInterval ==
  \A i \in Ids : fwdSincePurge[i] <= 1

\* C18 (amended): over the run an id is forwarded at most 1 + (number of
\* purges begun) times, the event Merge holds for the send included.
C18_OneRedeliveryPerPurge ==
  \A i \in Ids : fwdCount[i] + Held(i) <= 1 + purges

\* C18 witness: an id was forwarded, purged from the SeenSet, and forwarded
\* once more.
C18_Witness ==
  \E i \in Ids : purges = 1 /\ purgePc = "idle" /\ fwdCount[i] = 2 /\ i \in seen

(***************************************************************************)
(* Claims about the Poller's cursor at start-up and on a repeated response *)
(***************************************************************************)

\* C19: after a poll has emitted Events for a provider response and advanced
\* the cursor, a further poll that receives the same response emits 0 Events.
C19_NoReemit ==
  repeatEmits = 0

C21_FruitlessPollKeepsCursor ==
  [][(nPolls' = nPolls + 1 /\ pollKind' \in {"failed", "unstamped"})
       => (lastPoll' = lastPoll /\ stateFile' = stateFile /\ pollerPc' = "run")]_vars

\* C21 witness: the latest poll emitted a message whose timestamp does not
\* parse, and the cursor is the one the first call of the run sent.
C21_Witness ==
  /\ pollKind = "unstamped"
  /\ lastPoll = firstSince
  /\ \E m \in inbox : m.ts = NoTime /\ ExtractOk(m) /\ emitted[m.id] > 0

(***************************************************************************)
(* Claims about the deny message                                           *)
(***************************************************************************)

\* C28: each event that Check denies produces exactly one send of the
\* configured deny message, addressed to that event's sender, when the deny
\* message is non-empty, and no send when it is empty.
C28_OneDenyMessagePerDeny ==
  \A h \in 1..Len(handled) :
    handled[h].verdict = "Deny" =>
      { s \in orchSends : s.h = h } =
        IF denyMessage # ""
          THEN {[h |-> h, to |-> handled[h].from, body |-> denyMessage]}
          ELSE {}

\* C28 witness: two events of one unlisted sender were denied and each got
\* its own deny message.
C28_Witness ==
  /\ denyMessage # ""
  /\ \E g, h \in 1..Len(handled) :
       /\ g # h
       /\ handled[g].verdict = "Deny" /\ handled[h].verdict = "Deny"
       /\ handled[g].from = handled[h].from
       /\ \E s, t \in orchSends : s.h = g /\ t.h = h

(***************************************************************************)
(* Claims about the Webhook receiver                                       *)
(***************************************************************************)

\* C22: with an HMAC secret configured, a POST /webhook is accepted iff its
\* X-Hub-Signature-256 header is "sha256=" followed by the hex HMAC-SHA256
\* of the raw body; every other request is answered 401 and emits no Event.
C22_OnlyPrefixedDigestAccepted ==
  appSecret =>
    /\ whReq.pc = "serve" => whReq.hdr = <<Sha256Prefix, HexMac(whReq.body)>>
    /\ whResp.status # 0 =>
         /\ whResp.status # StatusUnauthorized
              <=> whResp.hdr = <<Sha256Prefix, HexMac(whResp.body)>>
         /\ whResp.status = StatusUnauthorized => whResp.nOut = 0

\* C23: for a POST that passes the signature and JSON validation, the 200
\* acknowledgement goes out before the first Event is emitted, whatever the
\* emission does afterwards: when the response reaches the provider the
\* handler has emitted nothing yet.
C23_AckBeforeFirstEvent ==
  whResp.status = StatusOK => whResp.nOut = 0

(***************************************************************************)
(* Claims about the gateway session                                        *)
(***************************************************************************)

\* A Connect call among the first n calls has succeeded.
ConnectedBy(n) ==
  \E k \in 1..n : gwCalls[k].op = "Connect" /\ gwCalls[k].res = "ok"

\* C24: no chat.send frame is written on a session whose Connect has not
\* succeeded: while no Connect has succeeded, whichever step the failed ones
\* stopped at, the session holds no connection and every Send returns an
\* error without writing a frame.
C24_NoFrameBeforeConnect ==
  /\ ~ConnectedBy(Len(gwCalls)) => gwConn = "nil"
  /\ \A n \in 1..Len(gwCalls) :
       (gwCalls[n].op = "Send" /\ ~ConnectedBy(n - 1)) =>
         (gwCalls[n].res = "error" /\ ~gwCalls[n].frame)

\* C24 witness: Connect was rejected by the gateway after the dial, and a
\* later Send returned an error.
C24_Witness ==
  /\ ~ConnectedBy(Len(gwCalls))
  /\ \E k, n \in 1..Len(gwCalls) :
       /\ k < n
       /\ gwCalls[k].op = "Connect" /\ gwCalls[k].step = "rejected"
       /\ gwCalls[n].op = "Send" /\ gwCalls[n].res = "error"

\* C25: Close is idempotent: a Close on a session that was already closed,
\* and a Close on a session that never connected, returns without error and
\* changes nothing.
C25_CloseIdempotent ==
  \A n \in 1..Len(gwCalls) :
    (gwCalls[n].op = "Close" /\ gwCalls[n].before \in {"nil", "closed"}) =>
      (gwCalls[n].res = "ok" /\ gwCalls[n].after = gwCalls[n].before)

(***************************************************************************)
(* Claims about the roles                                                  *)
(***************************************************************************)

\* The roles under which the TOML file lists a spelling of the number.
TomlRolesOf(phone) ==
  { r \in RoleNames :
      \E k \in 1..Len(tomlRoles[r]) : normalize(tomlRoles[r][k]) = normalize(phone) }

\* C26: a number that is in KAPSO_ALLOWED_NUMBERS and also under a role of
\* the TOML [security.roles] resolves to the TOML role, for every spelling
\* that normalization treats as the same number.
C26_TomlRoleWins ==
  \A k \in 1..Len(envNumbers) : \A r \in RoleNames :
    (Len(starts) > 0 /\ TomlRolesOf(envNumbers[k]) = {r}) =>
      Role(guardPhoneTo, envNumbers[k]) = r

\* C27: with a phone listed under two roles, Guard.Role returns the same
\* role for it on every start of the bridge.
C27_SameRoleEveryStart ==
  \A a, b \in 1..Len(starts) : \A p \in ListedPhones :
    Cardinality(TomlRolesOf(p)) = 2 => Role(starts[a], p) = Role(starts[b], p)

(***************************************************************************)
(* Claims about splitMessage                                               *)
(***************************************************************************)

\* The text is the chunks in order with nothing but whitespace before,
\* between and after them.
RECURSIVE Rebuilds(_, _)
Rebuilds(t, cs) ==
  IF cs = <<>> THEN \A i \in 1..Len(t) : IsSpace(t[i])
  ELSE \E k \in 0..Len(t) :
         /\ \A i \in 1..k : IsSpace(t[i])
         /\ k + Len(Head(cs)) <= Len(t)
         /\ SubSeq(t, k + 1, k + Len(Head(cs))) = Head(cs)
         /\ Rebuilds(SubSeq(t, k + Len(Head(cs)) + 1, Len(t)), Tail(cs))

C30_EveryChunkTrimmed ==
  splitPc = "done" =>
    \A k \in 1..Len(splitChunks) : splitChunks[k] = TrimSpace(splitChunks[k])

(***************************************************************************)
(* Claims about the relay's lower bound                                    *)
(***************************************************************************)

\* C36: the lower bound `since` of a message's relay task is not later than
\* the moment the chat.send frame for that message was written, so every
\* completed assistant turn appended after the frame is eligible for it.
C36_SinceNotAfterFrame ==
  \A k \in 1..Len(tasks) : \A n \in 1..Len(gwFrames) :
    gwFrames[n].h = tasks[k].h => tasks[k].since <= gwFrames[n].t

(***************************************************************************)
(* Claims about what the sources do with a message                         *)
(***************************************************************************)

\* C38: in allowlist mode a sender who is not on the allowlist never makes
\* the bridge send a WhatsApp message other than the deny message: the
\* sources send such a sender no notification.
C38_NothingButDenyMessage ==
  (mode = "allowlist" /\ normalize(MergeFrom) \notin phoneTo) =>
    \A i \in 1..MaxMsgs : notified[i] = 0

\* C39: the Poller skips no inbound message: a supported message stamped at
\* or after the cursor the Poller started from, and not emitted yet, is
\* never behind the cursor, where a provider that applies `since` will not
\* return it any more.
C39_NoMessageBehindCursor ==
  \A m \in inbox :
    (pollerPc = "run" /\ firstSince # NoTime /\ ExtractOk(m) /\ m.ts # NoTime
       /\ m.ts >= firstSince /\ emitted[m.id] = 0)
      => m.ts >= lastPoll

(***************************************************************************)
(* Claims about shutdown                                                   *)
(***************************************************************************)
\* C31: after the signal main cancels the root context first, then sends the
\* tailscale child SIGTERM, kills it only once the 5 s grace has run out
\* without the child having exited before, leaves the select without a kill
\* only when the child exited within the grace, and closes the gateway last;
\* when main has returned the child is not running.
C31_ShutdownOrder ==
  LET did(x) == \E a \in 1..Len(shutLog) : shutLog[a] = x
      rank(x) == CASE x = "cancel" -> 1 [] x = "term" -> 2 [] x = "kill" -> 3
                   [] x = "close" -> 4
  IN /\ \A a, b \in 1..Len(shutLog) : a < b => rank(shutLog[a]) < rank(shutLog[b])
     /\ Len(shutLog) > 0 => shutLog[1] = "cancel"
     /\ (did("close") /\ funnelProc # "none") => did("term")
     /\ did("kill") => /\ did("term")
                       /\ killAt >= termAt + FunnelGrace
                       /\ exitAt = NoTime \/ exitAt >= termAt + FunnelGrace
     /\ (mainPc \in {"return", "exited"} /\ funnelProc # "none" /\ ~did("kill"))
          => funnelProc = "exited" /\ exitAt <= termAt + FunnelGrace
     /\ mainPc = "exited" => funnelProc # "running"

\* The child ignored SIGTERM, was killed after the grace, and main returned.
C31_Witness ==
  /\ mainPc = "exited"
  /\ funnelProc = "killed"
  /\ shutLog = <<"cancel", "term", "kill", "close">>
  /\ exitAt = NoTime

C35_TasksExitAfterCancel ==
  ctxDone ~> /\ \A s \in Sources : runPc[s] \in {"off", "returned"}
             /\ cleanPc = "returned"
             /\ mergePc = "returned" /\ outCloses = 1
             /\ rangePc = "ended"

\* C37: no Source sends on Merge's internal channel after Merge has closed
\* it.
C37_NoSendAfterClose == lateSends = 0

(***************************************************************************)
(* Claims about the chunk loop                                             *)
(***************************************************************************)
\* C33 (as stated): the chunks sent to one sender are strictly ordered: each
\* reply's chunks go out in chunk order, each exactly once, and the chunks of
\* two replies relayed to the same sender are never interleaved.
C33_ChunksStrictlyOrdered ==
  /\ \A a \in 1..Len(chunkLog) :
       chunkLog[a].k = 1 + Cardinality({ b \in 1..(a - 1) :
                                          chunkLog[b].reply = chunkLog[a].reply })
  /\ \A a, b, c \in 1..Len(chunkLog) :
       (a < b /\ b < c /\ chunkLog[a].reply = chunkLog[c].reply)
         => chunkLog[b].reply = chunkLog[a].reply

\* C33 (amended): within one relay task the chunks of its reply are passed to
\* SendText in chunk order, each exactly once whether or not an earlier chunk
\* failed, and a task that has finished has sent every chunk.
C33_ChunksInOrderPerTask ==
  \A t \in 1..MaxTasks :
    LET mine == { a \in 1..Len(chunkLog) : chunkLog[a].task = t } IN
      /\ \A a \in mine :
           /\ chunkLog[a].reply = chunkJobs[t].reply
           /\ chunkLog[a].k = 1 + Cardinality({ b \in mine : b < a })
      /\ Cardinality(mine) = chunkJobs[t].next - 1
      /\ chunkJobs[t].next <= chunkJobs[t].n + 1

\* A chunk of a task failed, a chunk of another task went out next, then the
\* first task sent its following chunk; every task has finished.
C33_Witness ==
  /\ \A t \in 1..MaxTasks : chunkJobs[t].next = chunkJobs[t].n + 1
  /\ \E a, b, c \in 1..Len(chunkLog) :
       /\ a < b /\ b < c
       /\ chunkLog[a].task = chunkLog[c].task
       /\ chunkLog[b].task # chunkLog[a].task
       /\ ~chunkLog[a].ok
       /\ chunkLog[c].k = chunkLog[a].k + 1

(***************************************************************************)
(* Claims about the pipeline from the sources to the gateway               *)
(***************************************************************************)
\* C32: events of one sender that one source emitted, and that passed dedup
\* and admission, have their chat.send frames written in the order of
\* emission.  Ids are given out in emission order, and the event of an id that
\* passes dedup is the first one emitted with it, by firstSrc of that id.
C32_FramesInEmissionOrder ==
  \A a, b \in 1..Len(gwFrames) :
    (a < b /\ firstSrc[gwFrames[a].idempotencyKey] = firstSrc[gwFrames[b].idempotencyKey])
      => gwFrames[a].idempotencyKey < gwFrames[b].idempotencyKey

\* One source emitted two messages, both were admitted and their frames
\* written, and an event emitted again was dropped as a duplicate.
C32_Witness ==
  /\ Len(gwFrames) = 2
  /\ firstSrc[1] = firstSrc[2]
  /\ firstSrc[1] # "none"
  /\ \E i \in Ids : dropCount[i] > 0

\* C40: every event a source has put on the channel is in the end dropped as
\* a duplicate by Merge or handled by the consume loop (denied, rate limited,
\* or given to gw.Send, which has returned): for every n, once n events have
\* been emitted, at least n are eventually dropped or handled.  The channels
\* deliver in order, so these are the first n emitted.
C40_NoEventStranded ==
  \A n \in 1..MaxEmit :
    (nEmit >= n) ~>
      (Cardinality({ <<i, k>> \in Ids \X (1..MaxEmit) : k <= dropCount[i] })
         + Len(handled) - (IF consPc = "send" THEN 1 ELSE 0) >= n)

\* Every event the bound allows was emitted; one was dropped as a duplicate,
\* the others were handled, one of them by a gw.Send that failed, and the
\* pipeline is empty.
C40_Witness ==
  /\ nEmit = MaxEmit
  /\ \E i \in Ids : dropCount[i] > 0
  /\ Len(handled) >= 2
  /\ \E h \in 1..Len(handled) :
       /\ handled[h].verdict = "Allow"
       /\ \A a \in 1..Len(gwFrames) : gwFrames[a].h # h
  /\ ch = <<>> /\ hold = NoEvent /\ out = <<>> /\ consPc = "recv"

====
